---------------------------- MODULE Spec2Model ----------------------------
(***************************************************************************)
(* A model of the gmail-agent approval policy (agent/approval.py), of the  *)
(* free-slot scan and availability test of the calendar service            *)
(* (services/calendar_service.py), and of the parsers and fallbacks of the *)
(* classifier, the LLM service and the scheduler (agent/classifier.py,     *)
(* services/llm_service.py, agent/scheduler.py).                           *)
(* It also covers the known_senders table (db/database.py), the draft,     *)
(* pending-meeting and inbox views of the UI with their session caches     *)
(* (ui/draft_view.py, ui/calendar_view.py, ui/inbox_view.py) and the       *)
(* lazily constructed LLM clients with set_model.                          *)
(*                                                                         *)
(* Text is a sequence of one-character strings, so that lower-casing,      *)
(* substring search and the regular expressions of the commitment detector *)
(* are computed character by character.  Confidences are in tenths         *)
(* (0.7 is 7), times are minutes since midnight of day 0.                  *)
(***************************************************************************)
EXTENDS Integers, Sequences, FiniteSets, TLC

VARIABLES
    given,        \* the arguments ApprovalChecker.__init__ was called with
    checker,      \* the ApprovalChecker's fields
    call,         \* the call in progress or just returned: operation and inputs
    lookups,      \* what db.is_known_sender did on each lookup of the call
    check,        \* the ApprovalCheck the call returned
    risk_trace,   \* the values the local risk_level took, rule after rule
    auto,         \* the value should_auto_approve returned
    raised,       \* whether the call ended by raising
    slot_args,    \* find_free_slots: its arguments and the events fetched
    busy_times,   \* find_free_slots: the sorted busy intervals
    current,      \* find_free_slots: the cursor
    free_slots,   \* find_free_slots: the slots emitted so far
    pc,           \* find_free_slots: "idle", "scan" or "done"
    last_step,    \* find_free_slots: what the last loop iteration did
    parse_call,   \* availability, classification, extraction: the call made
    parse_out,    \* availability, classification, extraction: its outcome
    known_senders,\* known_senders table: the committed rows
    sender_calls, \* per UI session: the known-sender operation in progress
    drafts,       \* drafts table: status and is_approved of each draft id
    draft_cache,  \* per UI session: st.session_state["pending_drafts"], None when absent
    sent_count,   \* how many times send_email succeeded for each draft id
    calendar_actions,\* calendar_actions table: status and is_approved of each id
    action_ui,    \* per UI session: the cached pending actions and the last button handled
    created_events,\* the calendar actions an event was created for
    llm_object,   \* the classifier, drafter, scheduler or LLM service: model_id and caches
    llm_used,     \* the model of the client the last call used, and what set_model did
    session_state,\* the e-mail lists in st.session_state, by key
    mailbox,      \* the number of changes made to the Gmail mailbox
    inbox_ui      \* the last inbox handler run, and the keys cached when the cache was last dropped

approval_vars == <<given, checker, call, lookups, check, risk_trace, auto, raised>>
slot_vars == <<slot_args, busy_times, current, free_slots, pc, last_step>>
parse_vars == <<parse_call, parse_out>>
sender_vars == <<known_senders, sender_calls>>
draft_vars == <<drafts, draft_cache, sent_count>>
calendar_vars == <<calendar_actions, action_ui, created_events>>
llm_vars == <<llm_object, llm_used>>
inbox_vars == <<session_state, mailbox, inbox_ui>>
vars == <<given, checker, call, lookups, check, risk_trace, auto, raised,
          slot_args, busy_times, current, free_slots, pc, last_step,
          parse_call, parse_out,
          known_senders, sender_calls,
          drafts, draft_cache, sent_count,
          calendar_actions, action_ui, created_events,
          llm_object, llm_used,
          session_state, mailbox, inbox_ui>>

----------------------------------------------------------------------------
(* Text *)

UpperChars == <<"A","B","C","D","E","F","G","H","I","J","K","L","M",
                "N","O","P","Q","R","S","T","U","V","W","X","Y","Z">>
LowerChars == <<"a","b","c","d","e","f","g","h","i","j","k","l","m",
                "n","o","p","q","r","s","t","u","v","w","x","y","z">>
DigitChars == <<"0","1","2","3","4","5","6","7","8","9","_">>

Range(s) == {s[i] : i \in DOMAIN s}

\* the lower-case letter of each upper-case letter
UpperToLower == [c \in Range(UpperChars) |->
                    LowerChars[CHOOSE i \in DOMAIN UpperChars : UpperChars[i] = c]]

\* str.lower() on one character
LowerChar(c) == IF c \in DOMAIN UpperToLower THEN UpperToLower[c] ELSE c

\* str.lower()
Lower(text) == [i \in DOMAIN text |-> LowerChar(text[i])]

\* Python's "kw in text" on strings
Contains(text, kw) ==
    \E p \in 1..(Len(text) - Len(kw) + 1) :
        \A k \in 1..Len(kw) : text[p + k - 1] = kw[k]

\* the text made of the fragments of fs, in order
RECURSIVE Flatten(_)
Flatten(fs) == IF fs = <<>> THEN <<>> ELSE Head(fs) \o Flatten(Tail(fs))

\* the sequences over S of length at most n
SeqUpTo(S, n) == UNION {[1..k -> S] : k \in 0..n}

\* the texts made of at most n fragments of F
TextsOf(F, n) == {Flatten(fs) : fs \in SeqUpTo(F, n)}

----------------------------------------------------------------------------
(* config.py *)

\* CONFIDENCE_THRESHOLD = 0.7, in tenths
CONFIDENCE_THRESHOLD == 7

kw_dollar == <<"$">>

SENSITIVE_KEYWORDS ==
    <<<<"u","r","g","e","n","t">>,
      <<"d","e","a","d","l","i","n","e">>,
      <<"c","o","n","t","r","a","c","t">>,
      <<"p","a","y","m","e","n","t">>,
      <<"$">>,
      <<"i","n","v","o","i","c","e">>,
      <<"l","e","g","a","l">>,
      <<"c","o","n","f","i","d","e","n","t","i","a","l">>,
      <<"a","s","a","p">>,
      <<"i","m","m","e","d","i","a","t","e","l","y">>>>

\* config.ApprovalFlag
UNKNOWN_SENDER == "unknown_sender"
SENSITIVE_CONTENT == "sensitive_content"
LOW_CONFIDENCE == "low_confidence"

----------------------------------------------------------------------------
(* agent/approval.py *)

\* An optional argument is <<>> (None) or <<v>>.
None == <<>>
Some(v) == <<v>>

\* a reason code, and a parameterized reason "keyword:<kw>" / "attendee:<email>"
Reason(code) == [code |-> code, arg |-> <<>>]
ParamReason(code, arg) == [code |-> code, arg |-> arg]

\* mutant: approval asked for high risk only
ApprovalCheck_HighOnly(reasons, risk_level) ==
    [requires_approval |-> risk_level = "high",
     reasons |-> reasons,
     risk_level |-> risk_level]

ApprovalCheck(reasons, risk_level) ==
    [requires_approval |-> Len(reasons) > 0,
     reasons |-> reasons,
     risk_level |-> risk_level]

\* ApprovalChecker.__init__: "arg or default" takes the default for None and
\* for every falsy argument (0.0, the empty list)
InitThreshold(arg) ==
    IF arg = None \/ arg[1] = 0 THEN CONFIDENCE_THRESHOLD ELSE arg[1]

InitKeywords(arg) ==
    IF arg = None \/ arg[1] = <<>> THEN SENSITIVE_KEYWORDS ELSE arg[1]

NewChecker(threshold_arg, keywords_arg) ==
    [confidence_threshold |-> InitThreshold(threshold_arg),
     sensitive_keywords |-> InitKeywords(keywords_arg)]

\* mutant: a failed lookup counts as known (fail-open)
IsKnownSender_FailOpen(email, outcome) ==
    IF email = <<>> THEN [raised |-> FALSE, value |-> FALSE]
    ELSE IF outcome = "raise" THEN [raised |-> FALSE, value |-> TRUE]
    ELSE [raised |-> FALSE, value |-> (outcome = "true")]

\* _is_known_sender: outcome is what db.is_known_sender does when called
\* ("true", "false" or "raise"); the result says whether the call raised
\* and what it returned
IsKnownSender(email, outcome) ==
    IF email = <<>> THEN [raised |-> FALSE, value |-> FALSE]
    ELSE IF outcome = "raise" THEN [raised |-> FALSE, value |-> FALSE]
    ELSE [raised |-> FALSE, value |-> (outcome = "true")]

\* _find_sensitive_keywords
FindSensitiveKeywords(chk, text) ==
    LET text_lower == Lower(text)
    IN SelectSeq(chk.sensitive_keywords,
                 LAMBDA keyword : Contains(text_lower, Lower(keyword)))

\* mutant: the snippet is searched even when the full body is present
CheckSensitiveContent_SnippetOnly(chk, email) ==
    FindSensitiveKeywords(chk, Lower(email.subject \o <<" ">> \o email.snippet))

\* _check_sensitive_content
CheckSensitiveContent(chk, email) ==
    LET best == IF email.body # <<>> THEN email.body ELSE email.snippet
        combined == Lower(email.subject \o <<" ">> \o best)
    IN FindSensitiveKeywords(chk, combined)

KeywordReasons(found) == [i \in DOMAIN found |-> ParamReason("keyword", found[i])]

\* mutant: the level is set to medium without looking at it
RaiseToMedium_Always(risk_level) == "medium"

\* lines 82-83 and 121-122: "if risk_level == 'low': risk_level = 'medium'"
RaiseToMedium(risk_level) ==
    IF risk_level = "low" THEN "medium" ELSE risk_level

\* check_email; outcome is what the sender lookup does
CheckEmail(chk, email, classification, outcome) ==
    LET known == IsKnownSender(email.sender_email, outcome)
        reasons1 == IF ~known.value THEN <<Reason(UNKNOWN_SENDER)>> ELSE <<>>
        risk1 == IF ~known.value THEN "medium" ELSE "low"
        sensitive_found == CheckSensitiveContent(chk, email)
        reasons2 == IF sensitive_found # <<>>
                    THEN reasons1 \o <<Reason(SENSITIVE_CONTENT)>>
                                  \o KeywordReasons(sensitive_found)
                    ELSE reasons1
        risk2 == IF sensitive_found # <<>> THEN "high" ELSE risk1
        low == classification # None
               /\ classification[1].confidence < chk.confidence_threshold
        reasons3 == IF low THEN Append(reasons2, Reason(LOW_CONFIDENCE))
                    ELSE reasons2
        risk3 == IF low THEN RaiseToMedium(risk2) ELSE risk2
    IN [raised |-> known.raised,
        check |-> ApprovalCheck(reasons3, risk3),
        trace |-> <<"low", risk1, risk2, risk3>>]

p_confirm == <<"c","o","n","f","i","r","m">>
p_confirm_suffixes == {<<>>, <<"e","d">>, <<"i","n","g">>}
p_confirm_nouns == {<<"p","a","y","m","e","n","t">>,
                    <<"d","e","l","i","v","e","r","y">>,
                    <<"d","a","t","e">>,
                    <<"d","e","a","d","l","i","n","e">>}

\* lines 222-229: the commitment patterns without a wildcard, lower-case
PhrasePatterns ==
    {<<"i"," ","w","i","l","l">>,
     <<"i","'","l","l">>,
     <<"i"," ","c","o","m","m","i","t">>,
     <<"i"," ","p","r","o","m","i","s","e">>,
     <<"i"," ","a","g","r","e","e">>,
     <<"w","e"," ","w","i","l","l">>,
     <<"w","e","'","l","l">>,
     <<"g","u","a","r","a","n","t","e","e">>}

\* \w of a Python str pattern, on the characters of the model
WordChars == Range(UpperChars) \cup Range(LowerChars) \cup Range(DigitChars)

IsWordChar(c) == c \in WordChars

WordAt(text, i) == i \in DOMAIN text /\ IsWordChar(text[i])

\* \b just before position p (p = Len(text) + 1 is the end of the text)
Boundary(text, p) == WordAt(text, p - 1) # WordAt(text, p)

\* the literal pat matches text from position p on
MatchAt(text, pat, p) ==
    /\ p + Len(pat) - 1 <= Len(text)
    /\ \A k \in 1..Len(pat) : text[p + k - 1] = pat[k]

\* re.search(r"\bpat\b", text)
SearchWord(text, pat) ==
    \E p \in 1..Len(text) :
        /\ Boundary(text, p)
        /\ MatchAt(text, pat, p)
        /\ Boundary(text, p + Len(pat))

\* re.search(r"\bconfirm(ed|ing)?\b.*\b(payment|delivery|date|deadline)\b", text):
\* "." matches every character but the line break
SearchConfirm(text) ==
    \E p \in 1..Len(text) : \E suffix \in p_confirm_suffixes :
        LET q == p + Len(p_confirm) + Len(suffix)
        IN /\ Boundary(text, p)
           /\ MatchAt(text, p_confirm, p)
           /\ MatchAt(text, suffix, p + Len(p_confirm))
           /\ Boundary(text, q)
           /\ \E r \in q..Len(text) : \E noun \in p_confirm_nouns :
                /\ \A j \in q..(r - 1) : text[j] # "\n"
                /\ Boundary(text, r)
                /\ MatchAt(text, noun, r)
                /\ Boundary(text, r + Len(noun))

\* _contains_commitments
ContainsCommitments(text) ==
    LET text_lower == Lower(text)
    IN \/ \E pat \in PhrasePatterns : SearchWord(text_lower, pat)
       \/ SearchConfirm(text_lower)

\* mutant: a commitment raises the level only from low
CommitmentRisk_Guarded(risk_level) ==
    IF risk_level = "low" THEN "high" ELSE risk_level

\* line 117: a commitment forces the level
CommitmentRisk(risk_level) == "high"

\* check_draft; outcome is what the lookup of the original sender does
CheckDraft(chk, draft_body, original_email, outcome) ==
    LET sensitive_in_draft == FindSensitiveKeywords(chk, draft_body)
        reasons1 == IF sensitive_in_draft # <<>>
                    THEN <<Reason("draft_contains_sensitive_keywords")>>
                         \o KeywordReasons(sensitive_in_draft)
                    ELSE <<>>
        risk1 == IF sensitive_in_draft # <<>> THEN "medium" ELSE "low"
        commits == ContainsCommitments(draft_body)
        reasons2 == IF commits THEN Append(reasons1, Reason("contains_commitments"))
                    ELSE reasons1
        risk2 == IF commits THEN CommitmentRisk(risk1) ELSE risk1
        known == IsKnownSender(original_email.sender_email, outcome)
        reasons3 == IF ~known.value
                    THEN Append(reasons2, Reason("replying_to_unknown_sender"))
                    ELSE reasons2
        risk3 == IF ~known.value THEN RaiseToMedium(risk2) ELSE risk2
    IN [raised |-> known.raised,
        check |-> ApprovalCheck(reasons3, risk3),
        trace |-> <<"low", risk1, risk2, risk3>>]

\* line 157: unknown_attendees[:3]
MaxEnumerated == 3

\* mutant: every unknown attendee is enumerated
FirstUnknown_All(unknown_attendees) == unknown_attendees

FirstUnknown(unknown_attendees) ==
    SubSeq(unknown_attendees, 1,
           IF Len(unknown_attendees) < MaxEnumerated
           THEN Len(unknown_attendees) ELSE MaxEnumerated)

\* line 154: the attendees that are not known senders, in input order;
\* outcomes[i] is what the lookup of attendees[i] does
RECURSIVE UnknownAttendees(_, _)
UnknownAttendees(attendees, outcomes) ==
    IF attendees = <<>> THEN <<>>
    ELSE LET known == IsKnownSender(Head(attendees), Head(outcomes))
             rest == UnknownAttendees(Tail(attendees), Tail(outcomes))
         IN IF ~known.value THEN <<Head(attendees)>> \o rest ELSE rest

AttendeeReasons(emails) == [i \in DOMAIN emails |-> ParamReason("attendee", emails[i])]

\* check_calendar_action
CheckCalendarAction(chk, summary, attendees, is_external, outcomes) ==
    LET reasons1 == IF is_external THEN <<Reason("external_attendees")>> ELSE <<>>
        risk1 == IF is_external THEN "medium" ELSE "low"
        unknown_attendees == UnknownAttendees(attendees, outcomes)
        reasons2 == IF unknown_attendees # <<>>
                    THEN reasons1 \o <<Reason("unknown_attendees")>>
                                  \o AttendeeReasons(FirstUnknown(unknown_attendees))
                    ELSE reasons1
        risk2 == IF unknown_attendees # <<>> THEN "medium" ELSE risk1
        sensitive == FindSensitiveKeywords(chk, summary)
        reasons3 == IF sensitive # <<>>
                    THEN Append(reasons2, Reason("sensitive_meeting_topic"))
                    ELSE reasons2
        risk3 == IF sensitive # <<>> THEN "high" ELSE risk2
    IN [raised |-> \E i \in DOMAIN attendees :
                       IsKnownSender(attendees[i], outcomes[i]).raised,
        check |-> ApprovalCheck(reasons3, risk3),
        trace |-> <<"low", risk1, risk2, risk3>>]

\* line 193: the confidence an auto-approval needs, in tenths
AUTO_APPROVE_CONFIDENCE == 9

\* mutant: FYI_ONLY is tested before the rule check's verdict
AutoApproveValue_FyiFirst(requires_approval, classification, known) ==
    IF classification.category = "FYI_ONLY" THEN TRUE
    ELSE IF requires_approval THEN FALSE
    ELSE classification.confidence >= AUTO_APPROVE_CONFIDENCE /\ known

\* mutant: the sender is not looked up again
AutoApproveValue_NoLookup(requires_approval, classification, known) ==
    IF requires_approval THEN FALSE
    ELSE IF classification.category = "FYI_ONLY" THEN TRUE
    ELSE classification.confidence >= AUTO_APPROVE_CONFIDENCE

\* lines 187-193: the decision, given the rule check's verdict and the
\* result of the lookup of line 193
AutoApproveValue(requires_approval, classification, known) ==
    IF requires_approval THEN FALSE
    ELSE IF classification.category = "FYI_ONLY" THEN TRUE
    ELSE classification.confidence >= AUTO_APPROVE_CONFIDENCE /\ known

\* should_auto_approve; outcome1 is the lookup made inside check_email,
\* outcome2 the one made on line 193 (made only when that line's "and"
\* reaches it)
ShouldAutoApprove(chk, email, classification, outcome1, outcome2) ==
    LET r == CheckEmail(chk, email, Some(classification), outcome1)
        known == IsKnownSender(email.sender_email, outcome2)
        second == /\ ~r.raised
                  /\ ~r.check.requires_approval
                  /\ classification.category # "FYI_ONLY"
                  /\ classification.confidence >= AUTO_APPROVE_CONFIDENCE
    IN [raised |-> r.raised \/ (second /\ known.raised),
        check |-> r.check,
        trace |-> r.trace,
        second_lookup |-> second,
        value |-> AutoApproveValue(r.check.requires_approval, classification,
                                   known.value)]

----------------------------------------------------------------------------
(* The inputs the calls are tried on *)

\* fragments per e-mail body, per draft body, and attendees per calendar action
MaxBodyFrags == 2
MaxDraftFrags == 2
MaxAttendees == 4

f_Pay == <<"P","a","y">>
f_ment == <<"m","e","n","t">>

Subjects == {<<>>, f_Pay, f_ment, kw_dollar}

addr_a == <<"a","@","x">>
addr_b == <<"B","@","x">>
addr_c == <<"c","@","x">>

Emails == [sender_email : {<<>>, addr_a}, subject : Subjects,
           body : TextsOf({f_Pay, f_ment}, MaxBodyFrags),
           snippet : {<<>>, f_Pay \o f_ment}]

\* the e-mails should_auto_approve is tried on
ShortEmails == [sender_email : {<<>>, addr_a}, subject : Subjects,
                body : {<<>>, f_Pay, f_ment}, snippet : {<<>>}]

\* what db.is_known_sender may do on one call
Outcomes == {"true", "false", "raise"}

\* no lookup is made for an empty address
OutcomesFor(address) == IF address = <<>> THEN {"none"} ELSE Outcomes

Confidences == 0..10
ClassificationResults ==
    [category : {"NEEDS_REPLY", "FYI_ONLY"}, confidence : Confidences]

\* the draft of test_check_draft_commitments, shortened
d_test == <<"I"," ","w","i","l","l"," ","d","e","l","i","v","e","r",".",
            " ","I"," ","g","u","a","r","a","n","t","e","e"," ","t","h","i","s",".">>

\* drafts with a confirm-like word and one of the four nouns: on one line,
\* on two lines, and in the other order
ConfirmDrafts ==
    {<<"C","o","n","f","i","r","m","i","n","g"," ","t","h","e"," ","d","a","t","e">>,
     <<"C","o","n","f","i","r","m","e","d",".","\n","P","a","y","m","e","n","t">>,
     <<"c","o","n","f","i","r","m","\n","d","a","t","e">>,
     <<"d","a","t","e"," ","c","o","n","f","i","r","m","e","d">>}

Drafts ==
    TextsOf({<<"I"," ">>, <<"w","i","l","l">>, <<"I","'","l","l">>,
             <<"g","u","a","r","a","n","t","e","e">>, <<"d">>,
             <<"P","a","y","m","e","n","t"," ">>}, MaxDraftFrags) \cup {d_test}
        \cup ConfirmDrafts

AttendeeOutcome(address) ==
    IF address = <<>> THEN "none"
    ELSE IF address = addr_a THEN "true"
    ELSE IF address = addr_b THEN "false"
    ELSE "raise"

\* one outcome per attendee
OutcomeList(attendees) == [i \in DOMAIN attendees |-> AttendeeOutcome(attendees[i])]

NoEmail == [sender_email |-> <<>>, subject |-> <<>>, body |-> <<>>, snippet |-> <<>>]
NoCheck == ApprovalCheck(<<>>, "low")

IdleCall == [op |-> "idle", email |-> NoEmail, classification |-> None,
             draft_body |-> <<>>, summary |-> <<>>, attendees |-> <<>>,
             is_external |-> FALSE]

\* no availability, classification or extraction call in progress
NoParseCall == [op |-> "idle", email |-> NoEmail, response |-> "none", raw |-> <<>>,
                start |-> 0, end |-> 0, events |-> <<>>]
NoParseOut == [raised |-> "none", value |-> <<>>]

\* the browser sessions
Sessions == {"s1", "s2"}

\* the drafts created, and the sends of one draft the model follows
MaxDrafts == 2
MaxSends == 2

\* the calendar actions saved
MaxActions == 2

\* a session that has not opened the pending meetings
NoActionUi == [cache |-> None, op |-> "none", action |-> 0, message |-> ""]

\* a newly constructed classifier, drafter, scheduler or LLM service
NoLlmObject == [class |-> "none", model_id |-> "", llm |-> None, chain |-> None]

\* no call made and no set_model yet
NoLlmUse == [model |-> None, set_to |-> None, discarded |-> None]

\* the changes made to the mailbox the model follows
MaxMailboxChanges == 2

\* no inbox handler has run yet
NoInboxUi == [op |-> "none", key |-> <<>>, from_gmail |-> FALSE, stale |-> {},
              after_invalidation |-> FALSE]

\* a session with no known-sender operation in progress
NoSenderCall ==
    [op |-> "idle", pc |-> "idle", email |-> <<>>, name |-> <<>>,
     existing |-> None, returned |-> None, raised |-> "none", ok |-> FALSE]

----------------------------------------------------------------------------
(* The approval checker as a state machine: a checker is constructed, then  *)
(* called; a call's inputs and result stay in the state until it returns.  *)

InitApproval ==
    /\ \E t \in {None} \cup {Some(c) : c \in {0, 5, 10}},
          k \in {None, Some(<<f_Pay, kw_dollar>>)} :
         /\ given = [confidence_threshold |-> t, sensitive_keywords |-> k]
         /\ checker = NewChecker(t, k)
    /\ call = IdleCall
    /\ lookups = <<>>
    /\ check = NoCheck
    /\ risk_trace = <<>>
    /\ auto = FALSE
    /\ raised = FALSE
    /\ slot_args = [start_date |-> 0, end_date |-> 0, duration_minutes |-> 0,
                    working_hours |-> <<0, 0>>, events |-> <<>>]
    /\ busy_times = <<>>
    /\ current = 0
    /\ free_slots = <<>>
    /\ pc = "idle"
    /\ last_step = "none"
    /\ parse_call = NoParseCall
    /\ parse_out = NoParseOut
    /\ known_senders = {}
    /\ sender_calls = [s \in Sessions |-> NoSenderCall]
    /\ drafts = [d \in 1..MaxDrafts |-> [status |-> "none", is_approved |-> FALSE]]
    /\ draft_cache = [s \in Sessions |-> None]
    /\ sent_count = [d \in 1..MaxDrafts |-> 0]
    /\ calendar_actions = [a \in 1..MaxActions |-> [status |-> "none", is_approved |-> FALSE]]
    /\ action_ui = [s \in Sessions |-> NoActionUi]
    /\ created_events = {}
    /\ llm_object = NoLlmObject
    /\ llm_used = NoLlmUse
    /\ session_state = <<>>
    /\ mailbox = 0
    /\ inbox_ui = NoInboxUi

DoCheckEmail ==
    /\ call.op = "idle"
    /\ \E email \in Emails, cls \in {None} \cup {Some(c) : c \in ClassificationResults},
          o \in Outcomes \cup {"none"} :
         /\ o \in OutcomesFor(email.sender_email)
         /\ LET r == CheckEmail(checker, email, cls, o)
            IN /\ call' = [IdleCall EXCEPT !.op = "check_email", !.email = email,
                                           !.classification = cls]
               /\ lookups' = <<o>>
               /\ check' = r.check
               /\ risk_trace' = r.trace
               /\ raised' = r.raised
    /\ UNCHANGED <<given, checker, auto, slot_vars, parse_vars, sender_vars, draft_vars, calendar_vars, llm_vars, inbox_vars>>

DoCheckDraft ==
    /\ call.op = "idle"
    /\ \E draft_body \in Drafts, sender \in {<<>>, addr_a}, o \in Outcomes \cup {"none"} :
         /\ o \in OutcomesFor(sender)
         /\ LET original_email == [NoEmail EXCEPT !.sender_email = sender]
                r == CheckDraft(checker, draft_body, original_email, o)
            IN /\ call' = [IdleCall EXCEPT !.op = "check_draft", !.email = original_email,
                                           !.draft_body = draft_body]
               /\ lookups' = <<o>>
               /\ check' = r.check
               /\ risk_trace' = r.trace
               /\ raised' = r.raised
    /\ UNCHANGED <<given, checker, auto, slot_vars, parse_vars, sender_vars, draft_vars, calendar_vars, llm_vars, inbox_vars>>

DoCheckCalendarAction ==
    /\ call.op = "idle"
    /\ \E summary \in {<<>>, <<"U","R","G","E","N","T">>},
          attendees \in SeqUpTo({<<>>, addr_a, addr_b, addr_c}, MaxAttendees),
          is_external \in BOOLEAN :
           LET os == OutcomeList(attendees)
               r == CheckCalendarAction(checker, summary, attendees, is_external, os)
           IN /\ call' = [IdleCall EXCEPT !.op = "check_calendar_action",
                                          !.summary = summary, !.attendees = attendees,
                                          !.is_external = is_external]
              /\ lookups' = os
              /\ check' = r.check
              /\ risk_trace' = r.trace
              /\ raised' = r.raised
    /\ UNCHANGED <<given, checker, auto, slot_vars, parse_vars, sender_vars, draft_vars, calendar_vars, llm_vars, inbox_vars>>

DoShouldAutoApprove ==
    /\ call.op = "idle"
    /\ \E email \in ShortEmails, cls \in ClassificationResults,
          o1 \in Outcomes \cup {"none"}, o2 \in Outcomes \cup {"none"} :
         /\ o1 \in OutcomesFor(email.sender_email)
         /\ LET r == ShouldAutoApprove(checker, email, cls, o1, o2)
            IN /\ o2 \in (IF r.second_lookup THEN OutcomesFor(email.sender_email)
                          ELSE {"none"})
               /\ call' = [IdleCall EXCEPT !.op = "should_auto_approve", !.email = email,
                                           !.classification = Some(cls)]
               /\ lookups' = IF r.second_lookup THEN <<o1, o2>> ELSE <<o1>>
               /\ check' = r.check
               /\ risk_trace' = r.trace
               /\ auto' = r.value
               /\ raised' = r.raised
    /\ UNCHANGED <<given, checker, slot_vars, parse_vars, sender_vars, draft_vars, calendar_vars, llm_vars, inbox_vars>>

\* the caller is done with the result
Return ==
    /\ call.op # "idle"
    /\ call' = IdleCall
    /\ lookups' = <<>>
    /\ check' = NoCheck
    /\ risk_trace' = <<>>
    /\ auto' = FALSE
    /\ raised' = FALSE
    /\ UNCHANGED <<given, checker, slot_vars, parse_vars, sender_vars, draft_vars, calendar_vars, llm_vars, inbox_vars>>

NextApproval ==
    \/ DoCheckEmail
    \/ DoCheckDraft
    \/ DoCheckCalendarAction
    \/ DoShouldAutoApprove
    \/ Return

SpecApproval == InitApproval /\ [][NextApproval]_vars

----------------------------------------------------------------------------
(* services/calendar_service.py: find_free_slots *)

\* minutes in a day and in an hour, and timedelta(minutes=30) of line 307
MinutesPerDay == 1440
MinutesPerHour == 60
SLOT_STEP == 30

\* datetime.hour
Hour(t) == (t % MinutesPerDay) \div MinutesPerHour

\* t.replace(hour=h, minute=0, second=0, microsecond=0)
ReplaceHour(t, h) == (t \div MinutesPerDay) * MinutesPerDay + h * MinutesPerHour

\* mutant: the candidate end is never clipped to the end of the day
Min_NoClip(a, b) == a

Min(a, b) == IF a <= b THEN a ELSE b

\* line 270: the (start, end) of the events that are not all-day, in order
RECURSIVE BusyOf(_)
BusyOf(events) ==
    IF events = <<>> THEN <<>>
    ELSE IF Head(events).is_all_day THEN BusyOf(Tail(events))
    ELSE <<<<Head(events).start, Head(events).end>>>> \o BusyOf(Tail(events))

\* list.sort(key=lambda x: x[0]): stable, ascending by start
RECURSIVE InsertByStart(_, _)
InsertByStart(sorted, x) ==
    IF sorted = <<>> THEN <<x>>
    ELSE IF x[1] < Head(sorted)[1] THEN <<x>> \o sorted
    ELSE <<Head(sorted)>> \o InsertByStart(Tail(sorted), x)

RECURSIVE SortByStart(_)
SortByStart(busy) ==
    IF busy = <<>> THEN <<>>
    ELSE InsertByStart(SortByStart(SubSeq(busy, 1, Len(busy) - 1)), busy[Len(busy)])

\* mutant: only a candidate that starts inside the interval overlaps it
Overlaps_StartInside(cur, slot_end, interval) ==
    interval[1] <= cur /\ cur < interval[2]

\* line 293: the overlap test of the candidate [cur, slot_end) and one interval
Overlaps(cur, slot_end, interval) ==
    cur < interval[2] /\ slot_end > interval[1]

\* mutant: the cursor jumps to the end of the last overlapping interval
FirstOverlap_Last(busy, cur, slot_end) ==
    LET hits == {i \in DOMAIN busy : Overlaps(cur, slot_end, busy[i])}
    IN IF hits = {} THEN 0
       ELSE CHOOSE i \in hits : \A j \in hits : i >= j

\* lines 292-296: the index of the first busy interval that overlaps the
\* candidate, 0 when none does
FirstOverlap(busy, cur, slot_end) ==
    LET hits == {i \in DOMAIN busy : Overlaps(cur, slot_end, busy[i])}
    IN IF hits = {} THEN 0
       ELSE CHOOSE i \in hits : \A j \in hits : i <= j

\* mutant: a candidate is emitted whatever its length
LongEnough_Always(cur, slot_end, duration_minutes) == TRUE

\* line 300: the candidate is at least as long as the requested duration
LongEnough(cur, slot_end, duration_minutes) ==
    slot_end - cur >= duration_minutes

\* mutant: the cursor advances by an hour after a free candidate
Advance_Hour(cur) == cur + MinutesPerHour

\* mutant: the cursor stays where it is after a free candidate
Advance_Nowhere(cur) == cur

\* line 307: the cursor after a candidate that no busy interval overlaps
Advance(cur) == cur + SLOT_STEP

TimeSlot(start, end, duration_minutes) ==
    [start |-> start, end |-> end, duration_minutes |-> duration_minutes]

\* lines 276-307: one iteration of the while loop, from its test on
ScanIteration(args, busy, cur, slots) ==
    LET wh == args.working_hours
        snapped == IF Hour(cur) < wh[1] THEN ReplaceHour(cur, wh[1]) ELSE cur
        day_end == ReplaceHour(snapped, wh[2])
        slot_end == Min(snapped + args.duration_minutes, day_end)
        hit == FirstOverlap(busy, snapped, slot_end)
    IN IF ~(cur < args.end_date)
       THEN [current |-> cur, free_slots |-> slots, pc |-> "done", step |-> "exit"]
       ELSE IF Hour(cur) >= wh[1] /\ Hour(cur) >= wh[2]
       THEN [current |-> ReplaceHour(cur + MinutesPerDay, wh[1]),
             free_slots |-> slots, pc |-> "scan", step |-> "next_day"]
       ELSE IF slot_end > args.end_date
       THEN [current |-> snapped, free_slots |-> slots, pc |-> "done", step |-> "break"]
       ELSE IF hit # 0
       THEN [current |-> busy[hit][2], free_slots |-> slots, pc |-> "scan",
             step |-> "busy"]
       ELSE IF LongEnough(snapped, slot_end, args.duration_minutes)
       THEN [current |-> Advance(snapped),
             free_slots |-> Append(slots, TimeSlot(snapped, slot_end,
                                                   args.duration_minutes)),
             pc |-> "scan", step |-> "emit"]
       ELSE [current |-> Advance(snapped), free_slots |-> slots, pc |-> "scan",
             step |-> "short"]

----------------------------------------------------------------------------
(* The inputs find_free_slots is tried on *)

\* events fetched for one search
MaxEvents == 2

At(day, hour, minute) == day * MinutesPerDay + hour * MinutesPerHour + minute

Event(start, end, is_all_day) == [start |-> start, end |-> end, is_all_day |-> is_all_day]

EventLists ==
    SeqUpTo({Event(At(0, 10, 0), At(0, 10, 30), FALSE),
             Event(At(0, 10, 15), At(0, 11, 45), FALSE),
             Event(At(0, 16, 0), At(0, 17, 30), FALSE),
             Event(At(0, 9, 0), At(0, 9, 20), FALSE),
             Event(At(1, 9, 30), At(1, 10, 0), FALSE),
             Event(At(0, 0, 0), At(1, 0, 0), TRUE)}, MaxEvents)

----------------------------------------------------------------------------
(* find_free_slots as a state machine: a call fetches the events and sorts  *)
(* the busy intervals, then the loop runs one iteration per step.          *)

InitSlots ==
    /\ given = [confidence_threshold |-> None, sensitive_keywords |-> None]
    /\ checker = NewChecker(None, None)
    /\ call = IdleCall
    /\ lookups = <<>>
    /\ check = NoCheck
    /\ risk_trace = <<>>
    /\ auto = FALSE
    /\ raised = FALSE
    /\ slot_args = [start_date |-> 0, end_date |-> 0, duration_minutes |-> 0,
                    working_hours |-> <<0, 0>>, events |-> <<>>]
    /\ busy_times = <<>>
    /\ current = 0
    /\ free_slots = <<>>
    /\ pc = "idle"
    /\ last_step = "none"
    /\ parse_call = NoParseCall
    /\ parse_out = NoParseOut
    /\ known_senders = {}
    /\ sender_calls = [s \in Sessions |-> NoSenderCall]
    /\ drafts = [d \in 1..MaxDrafts |-> [status |-> "none", is_approved |-> FALSE]]
    /\ draft_cache = [s \in Sessions |-> None]
    /\ sent_count = [d \in 1..MaxDrafts |-> 0]
    /\ calendar_actions = [a \in 1..MaxActions |-> [status |-> "none", is_approved |-> FALSE]]
    /\ action_ui = [s \in Sessions |-> NoActionUi]
    /\ created_events = {}
    /\ llm_object = NoLlmObject
    /\ llm_used = NoLlmUse
    /\ session_state = <<>>
    /\ mailbox = 0
    /\ inbox_ui = NoInboxUi

\* lines 263-274
FindFreeSlots ==
    /\ pc = "idle"
    /\ \E start_date \in {At(0, 8, 0), At(0, 9, 0), At(0, 10, 10), At(0, 16, 30),
                           At(0, 17, 30)},
          end_date \in {At(0, 12, 0), At(0, 17, 0), At(1, 11, 0)},
          d \in {30, 60, 90}, wh \in {<<9, 17>>, <<10, 12>>}, events \in EventLists :
         /\ slot_args' = [start_date |-> start_date, end_date |-> end_date,
                          duration_minutes |-> d, working_hours |-> wh,
                          events |-> events]
         /\ busy_times' = SortByStart(BusyOf(events))
         /\ current' = start_date
    /\ free_slots' = <<>>
    /\ pc' = "scan"
    /\ last_step' = "none"
    /\ UNCHANGED <<approval_vars, parse_vars, sender_vars, draft_vars, calendar_vars, llm_vars, inbox_vars>>

\* lines 276-307
ScanStep ==
    /\ pc = "scan"
    /\ LET r == ScanIteration(slot_args, busy_times, current, free_slots)
       IN /\ current' = r.current
          /\ free_slots' = r.free_slots
          /\ pc' = r.pc
          /\ last_step' = r.step
    /\ UNCHANGED <<slot_args, busy_times, approval_vars, parse_vars, sender_vars, draft_vars, calendar_vars, llm_vars, inbox_vars>>

\* line 309: the caller takes the slots
SlotsReturn ==
    /\ pc = "done"
    /\ pc' = "idle"
    /\ slot_args' = [start_date |-> 0, end_date |-> 0, duration_minutes |-> 0,
                     working_hours |-> <<0, 0>>, events |-> <<>>]
    /\ busy_times' = <<>>
    /\ current' = 0
    /\ free_slots' = <<>>
    /\ last_step' = "none"
    /\ UNCHANGED <<approval_vars, parse_vars, sender_vars, draft_vars, calendar_vars, llm_vars, inbox_vars>>

NextSlots ==
    \/ FindFreeSlots
    \/ ScanStep
    \/ SlotsReturn

SpecSlots == InitSlots /\ [][NextSlots]_vars

\* the while loop of lines 279-307 keeps running until it is left
SpecSlotsFair == SpecSlots /\ WF_vars(ScanStep)

----------------------------------------------------------------------------
(* services/calendar_service.py: check_availability *)

\* mutant: an event that only touches the range conflicts with it
Conflicts_Touching(start, end, event) ==
    start <= event.end /\ end >= event.start

\* line 331: the event overlaps the range [start, end)
Conflicts(start, end, event) ==
    start < event.end /\ end > event.start

\* lines 328-334: the loop over the events list_events returned
RECURSIVE CheckAvailability(_, _, _)
CheckAvailability(start, end, events) ==
    IF events = <<>> THEN TRUE
    ELSE IF Head(events).is_all_day THEN CheckAvailability(start, end, Tail(events))
    ELSE IF Conflicts(start, end, Head(events)) THEN FALSE
    ELSE CheckAvailability(start, end, Tail(events))

----------------------------------------------------------------------------
(* Values decoded from the language model's JSON, and Python's conversions  *)
(* of them.  A value is tagged with its Python type t and held in the      *)
(* field of that type: s for a str, n for an int or a float (a float is in *)
(* tenths), b for a bool, l for a list of str; "absent" is a key the       *)
(* mapping does not hold.                                                  *)

JNull == [t |-> "NoneType", s |-> <<>>, n |-> 0, b |-> FALSE, l |-> <<>>]
JStr(text) == [JNull EXCEPT !.t = "str", !.s = text]
JInt(n) == [JNull EXCEPT !.t = "int", !.n = n]
JFloat(tenths) == [JNull EXCEPT !.t = "float", !.n = tenths]
JBool(b) == [JNull EXCEPT !.t = "bool", !.b = b]
JList(items) == [JNull EXCEPT !.t = "list", !.l = items]
Absent == [JNull EXCEPT !.t = "absent"]

\* dict.get(key, default)
Get(mapping, key, default) ==
    IF mapping[key].t = "absent" THEN default ELSE mapping[key]

\* how an operation ends: by returning a value or by raising an exception
Returns(value) == [raised |-> "none", value |-> value]
Raises(exception) == [raised |-> exception, value |-> <<>>]

\* the upper-case letter of each lower-case letter
LowerToUpper == [c \in Range(LowerChars) |->
                    UpperChars[CHOOSE i \in DOMAIN LowerChars : LowerChars[i] = c]]

\* str.upper()
Upper(text) ==
    [i \in DOMAIN text |-> IF text[i] \in DOMAIN LowerToUpper
                           THEN LowerToUpper[text[i]] ELSE text[i]]

DigitValue == [c \in {"0","1","2","3","4","5","6","7","8","9"} |->
                  CHOOSE n \in 0..9 :
                      <<"0","1","2","3","4","5","6","7","8","9">>[n + 1] = c]

IsNumeral(text) == text # <<>> /\ \A i \in DOMAIN text : text[i] \in DOMAIN DigitValue

\* the number a sequence of decimal digits writes
RECURSIVE NumeralValue(_)
NumeralValue(digits) ==
    IF digits = <<>> THEN 0
    ELSE 10 * NumeralValue(SubSeq(digits, 1, Len(digits) - 1))
         + DigitValue[digits[Len(digits)]]

\* int(text) for the spellings [-]digits; every other text the inputs hold
\* ("", words, decimals) is a ValueError
IntOfText(text) ==
    LET negative == text # <<>> /\ text[1] = "-"
        digits == IF negative THEN Tail(text) ELSE text
    IN IF IsNumeral(digits)
       THEN Returns(IF negative THEN 0 - NumeralValue(digits) ELSE NumeralValue(digits))
       ELSE Raises("ValueError")

\* float(text), in tenths, for the spellings [-]digits and [-]digits.digit;
\* every other text the inputs hold ("", words) is a ValueError
FloatOfText(text) ==
    LET negative == text # <<>> /\ text[1] = "-"
        body == IF negative THEN Tail(text) ELSE text
        n == Len(body)
        decimal == n >= 3 /\ body[n - 1] = "." /\ IsNumeral(SubSeq(body, 1, n - 2))
                     /\ IsNumeral(<<body[n]>>)
        tenths == IF decimal
                  THEN 10 * NumeralValue(SubSeq(body, 1, n - 2)) + DigitValue[body[n]]
                  ELSE 10 * NumeralValue(body)
    IN IF decimal \/ IsNumeral(body)
       THEN Returns(IF negative THEN 0 - tenths ELSE tenths)
       ELSE Raises("ValueError")

\* float(x), in tenths
FloatOf(x) ==
    IF x.t = "float" THEN Returns(x.n)
    ELSE IF x.t = "int" THEN Returns(10 * x.n)
    ELSE IF x.t = "bool" THEN Returns(IF x.b THEN 10 ELSE 0)
    ELSE IF x.t = "str" THEN FloatOfText(x.s)
    ELSE Raises("TypeError")

\* the quotient of a by b rounded towards zero
TruncDiv(a, b) == IF a >= 0 THEN a \div b ELSE 0 - ((0 - a) \div b)

\* int(x)
IntOf(x) ==
    IF x.t = "int" THEN Returns(x.n)
    ELSE IF x.t = "float" THEN Returns(TruncDiv(x.n, 10))
    ELSE IF x.t = "bool" THEN Returns(IF x.b THEN 1 ELSE 0)
    ELSE IF x.t = "str" THEN IntOfText(x.s)
    ELSE Raises("TypeError")

\* bool(x)
Truthy(x) ==
    IF x.t = "bool" THEN x.b
    ELSE IF x.t \in {"int", "float"} THEN x.n # 0
    ELSE IF x.t = "str" THEN x.s # <<>>
    ELSE IF x.t = "list" THEN x.l # <<>>
    ELSE FALSE

----------------------------------------------------------------------------
(* agent/classifier.py and LLMService._parse_classification *)

\* the categories, as the text the code compares
EmailCategory ==
    [NEEDS_REPLY |-> <<"N","E","E","D","S","_","R","E","P","L","Y">>,
     FYI_ONLY |-> <<"F","Y","I","_","O","N","L","Y">>,
     MEETING_REQUEST |-> <<"M","E","E","T","I","N","G","_","R","E","Q","U",
                           "E","S","T">>,
     TASK_ACTION |-> <<"T","A","S","K","_","A","C","T","I","O","N">>]

\* classifier.py line 127, llm_service.py line 238
valid_categories ==
    {EmailCategory.NEEDS_REPLY, EmailCategory.FYI_ONLY,
     EmailCategory.MEETING_REQUEST, EmailCategory.TASK_ACTION}

\* the reasoning of the fallback and default classifications
Reasoning ==
    [meeting |-> <<"C","o","n","t","a","i","n","s"," ","m","e","e","t","i",
                   "n","g","-","r","e","l","a","t","e","d"," ","k","e","y",
                   "w","o","r","d","s">>,
     question |-> <<"C","o","n","t","a","i","n","s"," ","q","u","e","s","t",
                    "i","o","n"," ","o","r"," ","r","e","q","u","e","s","t",
                    " ","p","a","t","t","e","r","n","s">>,
     task |-> <<"C","o","n","t","a","i","n","s"," ","t","a","s","k","-","r",
                "e","l","a","t","e","d"," ","k","e","y","w","o","r","d","s">>,
     fallback |-> <<"F","a","l","l","b","a","c","k"," ","c","l","a","s","s",
                    "i","f","i","c","a","t","i","o","n">>,
     failed |-> <<"F","a","i","l","e","d"," ","t","o"," ","p","a","r","s","e",
                  " ","r","e","s","p","o","n","s","e">>]

\* the ClassificationResult dataclass; the confidence is in tenths
Classification(category, confidence, reasoning) ==
    [category |-> category, confidence |-> confidence, reasoning |-> reasoning]

\* lines 126-129 (llm_service.py 237-240): an unrecognized category
\* becomes FYI_ONLY
ValidCategory(category) ==
    IF category \in valid_categories THEN category ELSE EmailCategory.FYI_ONLY

\* line 132: max(0.0, min(1.0, confidence))
Clamp(confidence) ==
    LET capped == IF confidence < 10 THEN confidence ELSE 10
    IN IF capped > 0 THEN capped ELSE 0

\* lines 124-138: EmailClassifier._parse_result on a mapping
ParseResult(result) ==
    LET category == Get(result, "category", JStr(EmailCategory.FYI_ONLY))
        confidence == FloatOf(Get(result, "confidence", JFloat(5)))
    IN IF category.t # "str" THEN Raises("AttributeError")
       ELSE IF confidence.raised # "none" THEN Raises(confidence.raised)
       ELSE Returns(Classification(ValidCategory(Upper(category.s)),
                                   Clamp(confidence.value),
                                   Get(result, "reasoning", JStr(<<>>))))

\* llm_service.py lines 249-253
FailedToParse == Classification(EmailCategory.FYI_ONLY, 5, JStr(Reasoning.failed))

\* llm_service.py lines 231-253: LLMService._parse_classification.  The
\* response is given by what re.search and json.loads make of it: no
\* {...} in it ("no_match"), a {...} that is not JSON ("invalid_json"), or
\* a {...} decoded as the mapping data ("mapping").
ParseClassification(response, data) ==
    IF response # "mapping" THEN Returns(FailedToParse)
    ELSE LET category == Get(data, "category", JStr(EmailCategory.FYI_ONLY))
             confidence == FloatOf(Get(data, "confidence", JFloat(5)))
         IN IF category.t # "str" THEN Raises("AttributeError")
            ELSE IF confidence.raised = "ValueError" THEN Returns(FailedToParse)
            ELSE IF confidence.raised # "none" THEN Raises(confidence.raised)
            ELSE Returns(Classification(ValidCategory(Upper(category.s)),
                                        confidence.value,
                                        Get(data, "reasoning", JStr(<<>>))))

\* line 146
meeting_words ==
    {<<"m","e","e","t","i","n","g">>,
     <<"c","a","l","l">>,
     <<"s","c","h","e","d","u","l","e">>,
     <<"c","a","l","e","n","d","a","r">>,
     <<"i","n","v","i","t","e">>}

\* line 153
question_words ==
    {<<"?">>,
     <<"p","l","e","a","s","e">>,
     <<"c","o","u","l","d"," ","y","o","u">>,
     <<"c","a","n"," ","y","o","u">>,
     <<"w","o","u","l","d"," ","y","o","u">>}

\* line 160
task_words ==
    {<<"t","o","d","o">>,
     <<"t","a","s","k">>,
     <<"a","c","t","i","o","n">>,
     <<"d","e","a","d","l","i","n","e">>,
     <<"d","u","e">>}

\* any(word in text for word in words)
AnyIn(words, text) == \E word \in words : Contains(text, word)

\* lines 142-144: the lower-cased subject, a space, and the lower-cased
\* body (the snippet when the body is empty)
Combined(email) ==
    Lower(email.subject) \o <<" ">>
        \o Lower(IF email.body # <<>> THEN email.body ELSE email.snippet)

\* mutant: the question markers are tried before the meeting keywords
FallbackCategory_QuestionFirst(combined) ==
    IF AnyIn(question_words, combined) THEN "question"
    ELSE IF AnyIn(meeting_words, combined) THEN "meeting"
    ELSE IF AnyIn(task_words, combined) THEN "task"
    ELSE "none"

\* lines 146, 153, 160: the first rule that matches
FallbackCategory(combined) ==
    IF AnyIn(meeting_words, combined) THEN "meeting"
    ELSE IF AnyIn(question_words, combined) THEN "question"
    ELSE IF AnyIn(task_words, combined) THEN "task"
    ELSE "none"

\* lines 140-171: EmailClassifier._fallback_classification
FallbackClassification(email) ==
    LET rule == FallbackCategory(Combined(email))
    IN IF rule = "meeting"
       THEN Classification(EmailCategory.MEETING_REQUEST, 6, JStr(Reasoning.meeting))
       ELSE IF rule = "question"
       THEN Classification(EmailCategory.NEEDS_REPLY, 6, JStr(Reasoning.question))
       ELSE IF rule = "task"
       THEN Classification(EmailCategory.TASK_ACTION, 6, JStr(Reasoning.task))
       ELSE Classification(EmailCategory.FYI_ONLY, 5, JStr(Reasoning.fallback))

\* mutant: an exception of the chain or of the parsing reaches the caller
Classify_NoFallback(email, response, result) ==
    IF response = "raise" THEN Raises("Exception")
    ELSE IF response = "not_mapping" THEN Raises("AttributeError")
    ELSE ParseResult(result)

\* lines 87-110: EmailClassifier.classify.  The chain raises ("raise"),
\* returns a value that is not a mapping ("not_mapping"), whose .get is an
\* AttributeError, or returns the mapping result ("mapping").
Classify(email, response, result) ==
    IF response \in {"raise", "not_mapping"} THEN Returns(FallbackClassification(email))
    ELSE LET parsed == ParseResult(result)
         IN IF parsed.raised # "none" THEN Returns(FallbackClassification(email))
            ELSE parsed

----------------------------------------------------------------------------
(* agent/scheduler.py: extract_meeting_details and its parsers *)

\* str.strip()
RECURSIVE Strip(_)
Strip(text) ==
    IF text = <<>> THEN <<>>
    ELSE IF Head(text) \in {" ", "\t", "\n"} THEN Strip(Tail(text))
    ELSE IF text[Len(text)] \in {" ", "\t", "\n"}
    THEN Strip(SubSeq(text, 1, Len(text) - 1))
    ELSE text

\* str.split(sep) for a separator of one character
RECURSIVE Split(_, _)
Split(text, sep) ==
    LET at == {i \in DOMAIN text : text[i] = sep}
    IN IF at = {} THEN <<text>>
       ELSE LET first == CHOOSE i \in at : \A j \in at : i <= j
            IN <<SubSeq(text, 1, first - 1)>>
                   \o Split(SubSeq(text, first + 1, Len(text)), sep)

\* [a.strip() for a in parts if a.strip()]
RECURSIVE StripNonEmpty(_)
StripNonEmpty(parts) ==
    IF parts = <<>> THEN <<>>
    ELSE IF Strip(Head(parts)) = <<>> THEN StripNonEmpty(Tail(parts))
    ELSE <<Strip(Head(parts))>> \o StripNonEmpty(Tail(parts))

\* the MeetingExtraction dataclass
MeetingExtraction(has_meeting_request, title, proposed_times, duration_minutes, attendees, location, notes) ==
    [has_meeting_request |-> has_meeting_request, title |-> title,
     proposed_times |-> proposed_times, duration_minutes |-> duration_minutes,
     attendees |-> attendees, location |-> location, notes |-> notes]

\* lines 225-228 and 239
HasMeeting(result) ==
    LET has_meeting == Get(result, "has_meeting_request", JBool(FALSE))
    IN IF has_meeting.t = "str"
       THEN Lower(has_meeting.s) \in {<<"t","r","u","e">>, <<"y","e","s">>, <<"1">>}
       ELSE Truthy(has_meeting)

\* lines 230-232
ProposedTimes(result) ==
    LET proposed_times == Get(result, "proposed_times", JList(<<>>))
    IN IF proposed_times.t = "str"
       THEN JList(IF proposed_times.s # <<>> THEN <<proposed_times.s>> ELSE <<>>)
       ELSE proposed_times

\* lines 234-236
Attendees(result) ==
    LET attendees == Get(result, "attendees", JList(<<>>))
    IN IF attendees.t = "str" THEN JList(StripNonEmpty(Split(attendees.s, ",")))
       ELSE attendees

\* line 240: result.get("title", "") or email.subject
Title(result, email) ==
    LET title == Get(result, "title", JStr(<<>>))
    IN IF Truthy(title) THEN title ELSE JStr(email.subject)

\* default duration of lines 242 and 267
DEFAULT_DURATION == 60

\* lines 223-246: MeetingScheduler._parse_extraction on a mapping
ParseExtraction(result, email) ==
    LET duration_minutes == IntOf(Get(result, "duration_minutes", JInt(DEFAULT_DURATION)))
    IN IF duration_minutes.raised # "none" THEN Raises(duration_minutes.raised)
       ELSE Returns(MeetingExtraction(HasMeeting(result), Title(result, email),
                                      ProposedTimes(result), duration_minutes.value,
                                      Attendees(result),
                                      Get(result, "location", JStr(<<>>)),
                                      Get(result, "notes", JStr(<<>>))))

\* lines 254-264
scheduling_words ==
    {<<"m","e","e","t","i","n","g">>,
     <<"c","a","l","l">>,
     <<"s","c","h","e","d","u","l","e">>,
     <<"c","a","l","e","n","d","a","r">>,
     <<"i","n","v","i","t","e">>,
     <<"a","v","a","i","l","a","b","l","e">>,
     <<"d","i","s","c","u","s","s">>,
     <<"c","a","t","c","h"," ","u","p">>,
     <<"s","y","n","c">>}

\* lines 267-273
FallbackDuration(combined) ==
    IF \/ Contains(combined, <<"3","0"," ","m","i","n">>)
       \/ Contains(combined, <<"h","a","l","f"," ","h","o","u","r">>)
    THEN 30
    ELSE IF Contains(combined, <<"2"," ","h","o","u","r">>) THEN 120
    ELSE IF Contains(combined, <<"1","5"," ","m","i","n">>) THEN 15
    ELSE DEFAULT_DURATION

\* lines 248-283: MeetingScheduler._fallback_extraction
FallbackExtraction(email) ==
    LET combined == Lower(email.subject \o <<" ">>
                            \o (IF email.body # <<>> THEN email.body ELSE email.snippet))
    IN MeetingExtraction(AnyIn(scheduling_words, combined), JStr(email.subject),
                         JList(<<>>), FallbackDuration(combined),
                         JList(IF email.sender_email # <<>> THEN <<email.sender_email>>
                               ELSE <<>>),
                         JStr(<<>>), JStr(<<>>))

\* lines 120-143: MeetingScheduler.extract_meeting_details.  The chain
\* raises ("raise"), returns a value that is not a mapping ("not_mapping")
\* or returns the mapping result ("mapping").
ExtractMeetingDetails(email, response, result) ==
    IF response \in {"raise", "not_mapping"} THEN Returns(FallbackExtraction(email))
    ELSE LET parsed == ParseExtraction(result, email)
         IN IF parsed.raised # "none" THEN Returns(FallbackExtraction(email))
            ELSE parsed

\* lines 145-191: MeetingScheduler.create_scheduling_proposal.  A Python list
\* is an object: "extraction.attendees or []" is the extraction's own list
\* when that list is not empty and a new list otherwise, and append changes
\* the list it is called on.  The value is the extraction as it is after the
\* call and the attendees of the MeetingDetails built; the slots and the
\* reply text, which are only read from the calendar, are left out.
CreateSchedulingProposal(extraction, email) ==
    LET own_list == extraction.attendees.l # <<>>
        attendees == IF own_list THEN extraction.attendees.l ELSE <<>>
        appended == IF email.sender_email # <<>>
                         /\ email.sender_email \notin Range(attendees)
                    THEN Append(attendees, email.sender_email)
                    ELSE attendees
    IN [extraction |-> IF own_list
                       THEN [extraction EXCEPT !.attendees = JList(appended)]
                       ELSE extraction,
        meeting_attendees |-> appended]

----------------------------------------------------------------------------
(* The inputs the availability test, the parsers and the fallbacks are     *)
(* tried on                                                                *)

\* fragments in the body of an e-mail given to the fallback classification
MaxHeuristicFrags == 2

\* the texts the e-mails and the mappings are made of
Txt ==
    [Call |-> <<"C","a","l","l">>,
     question_mark |-> <<"?">>,
     due |-> <<"d","u","e">>,
     hi |-> <<"h","i">>,
     needs_reply |-> <<"n","e","e","d","s","_","r","e","p","l","y">>,
     bogus |-> <<"b","o","g","u","s">>,
     Task_Action |-> <<"T","a","s","k","_","A","c","t","i","o","n">>,
     decimal |-> <<"0",".","8">>,
     high |-> <<"h","i","g","h">>,
     because |-> <<"b","e","c","a","u","s","e">>,
     thirty_min |-> <<"3","0"," ","m","i","n">>,
     two_hour_15_min |-> <<"2"," ","h","o","u","r"," ","1","5"," ","m","i",
                           "n">>,
     Half_Hour |-> <<"H","a","l","f"," ","H","o","u","r">>,
     fifteen_min |-> <<"1","5"," ","m","i","n">>,
     sync |-> <<"s","y","n","c">>,
     forty_five |-> <<"4","5">>,
     soon |-> <<"s","o","o","n">>,
     Yes |-> <<"Y","e","s">>,
     two_addresses |-> <<"a","@","x",","," ","B","@","x">>,
     commas |-> <<" ",","," ">>,
     monday |-> <<"m","o","n">>,
     mon_tue |-> <<"m","o","n",","," ","t","u","e">>,
     Standup |-> <<"S","t","a","n","d","u","p">>]

\* the e-mails _fallback_classification is tried on
FallbackEmails ==
    [sender_email : {addr_a}, subject : {<<>>, Txt.Call, Txt.due},
     body : TextsOf({Txt.Call, Txt.question_mark, Txt.due, Txt.hi}, MaxHeuristicFrags),
     snippet : {<<>>, Txt.question_mark}]

\* the e-mails classify is tried on
ClassifyEmails ==
    [sender_email : {addr_a}, subject : {<<>>, Txt.Call},
     body : {<<>>, Txt.question_mark, Txt.due}, snippet : {<<>>}]

\* the mappings the classification parsers are tried on
RawClassifications ==
    [category : {Absent, JStr(Txt.needs_reply), JStr(Txt.bogus), JStr(Txt.Task_Action),
                 JInt(5), JNull},
     confidence : {Absent, JFloat(25), JFloat(0 - 5), JFloat(8), JInt(1),
                   JStr(Txt.decimal), JStr(Txt.high), JNull},
     reasoning : {Absent, JStr(Txt.because)}]

\* the e-mails extract_meeting_details is tried on
ExtractionEmails ==
    [sender_email : {<<>>, addr_a}, subject : {<<>>, Txt.Call},
     body : {<<>>, Txt.thirty_min, Txt.two_hour_15_min, Txt.Half_Hour, Txt.fifteen_min, Txt.sync},
     snippet : {<<>>}]

\* the mappings _parse_extraction is tried on
RawExtractions ==
    [has_meeting_request : {Absent, JBool(TRUE), JStr(Txt.Yes)},
     title : {Absent, JStr(Txt.Standup)},
     proposed_times : {Absent, JStr(Txt.monday), JStr(Txt.mon_tue),
                       JList(<<Txt.monday>>)},
     duration_minutes : {Absent, JInt(0), JInt(0 - 30), JInt(45), JFloat(5),
                         JStr(Txt.forty_five), JStr(Txt.soon), JNull},
     attendees : {Absent, JStr(Txt.two_addresses), JStr(Txt.commas),
                  JList(<<addr_a>>)},
     location : {Absent},
     notes : {Absent}]

\* the extractions create_scheduling_proposal is tried on
Extractions ==
    {MeetingExtraction(TRUE, JStr(Txt.Standup), JList(<<Txt.monday>>), d, JList(a),
                       JStr(<<>>), JStr(<<>>)) :
        d \in {30, 60}, a \in {<<>>, <<addr_a>>, <<addr_b>>, <<addr_b, addr_c>>}}

----------------------------------------------------------------------------
(* The availability test, the parsers and the fallbacks as a state machine: *)
(* a call's inputs and outcome stay in the state until it returns.         *)

InitParse ==
    /\ given = [confidence_threshold |-> None, sensitive_keywords |-> None]
    /\ checker = NewChecker(None, None)
    /\ call = IdleCall
    /\ lookups = <<>>
    /\ check = NoCheck
    /\ risk_trace = <<>>
    /\ auto = FALSE
    /\ raised = FALSE
    /\ slot_args = [start_date |-> 0, end_date |-> 0, duration_minutes |-> 0,
                    working_hours |-> <<0, 0>>, events |-> <<>>]
    /\ busy_times = <<>>
    /\ current = 0
    /\ free_slots = <<>>
    /\ pc = "idle"
    /\ last_step = "none"
    /\ parse_call = NoParseCall
    /\ parse_out = NoParseOut
    /\ known_senders = {}
    /\ sender_calls = [s \in Sessions |-> NoSenderCall]
    /\ drafts = [d \in 1..MaxDrafts |-> [status |-> "none", is_approved |-> FALSE]]
    /\ draft_cache = [s \in Sessions |-> None]
    /\ sent_count = [d \in 1..MaxDrafts |-> 0]
    /\ calendar_actions = [a \in 1..MaxActions |-> [status |-> "none", is_approved |-> FALSE]]
    /\ action_ui = [s \in Sessions |-> NoActionUi]
    /\ created_events = {}
    /\ llm_object = NoLlmObject
    /\ llm_used = NoLlmUse
    /\ session_state = <<>>
    /\ mailbox = 0
    /\ inbox_ui = NoInboxUi

\* calendar_service.py lines 311-334
DoCheckAvailability ==
    /\ parse_call.op = "idle"
    /\ \E start \in {At(0, 9, 30), At(0, 10, 0), At(0, 10, 30)},
          end \in {At(0, 10, 0), At(0, 10, 30), At(0, 11, 0)},
          events \in EventLists :
         /\ parse_call' = [NoParseCall EXCEPT !.op = "check_availability",
                                              !.start = start, !.end = end,
                                              !.events = events]
         /\ parse_out' = Returns(CheckAvailability(start, end, events))
    /\ UNCHANGED <<approval_vars, slot_vars, sender_vars, draft_vars, calendar_vars, llm_vars, inbox_vars>>

\* classifier.py lines 124-138
DoParseResult ==
    /\ parse_call.op = "idle"
    /\ \E result \in RawClassifications :
         /\ parse_call' = [NoParseCall EXCEPT !.op = "_parse_result",
                                              !.response = "mapping", !.raw = result]
         /\ parse_out' = ParseResult(result)
    /\ UNCHANGED <<approval_vars, slot_vars, sender_vars, draft_vars, calendar_vars, llm_vars, inbox_vars>>

\* llm_service.py lines 231-253
DoParseClassification ==
    /\ parse_call.op = "idle"
    /\ \E response \in {"no_match", "invalid_json", "mapping"} :
         \E data \in (IF response = "mapping" THEN RawClassifications ELSE {<<>>}) :
            /\ parse_call' = [NoParseCall EXCEPT !.op = "_parse_classification",
                                                 !.response = response, !.raw = data]
            /\ parse_out' = ParseClassification(response, data)
    /\ UNCHANGED <<approval_vars, slot_vars, sender_vars, draft_vars, calendar_vars, llm_vars, inbox_vars>>

\* classifier.py lines 140-171
DoFallbackClassification ==
    /\ parse_call.op = "idle"
    /\ \E email \in FallbackEmails :
         /\ parse_call' = [NoParseCall EXCEPT !.op = "_fallback_classification",
                                              !.email = email]
         /\ parse_out' = Returns(FallbackClassification(email))
    /\ UNCHANGED <<approval_vars, slot_vars, sender_vars, draft_vars, calendar_vars, llm_vars, inbox_vars>>

\* classifier.py lines 87-110
DoClassify ==
    /\ parse_call.op = "idle"
    /\ \E email \in ClassifyEmails, response \in {"raise", "not_mapping", "mapping"} :
         \E result \in (IF response = "mapping" THEN RawClassifications ELSE {<<>>}) :
            /\ parse_call' = [NoParseCall EXCEPT !.op = "classify", !.email = email,
                                                 !.response = response, !.raw = result]
            /\ parse_out' = Classify(email, response, result)
    /\ UNCHANGED <<approval_vars, slot_vars, sender_vars, draft_vars, calendar_vars, llm_vars, inbox_vars>>

\* scheduler.py lines 120-143
DoExtractMeetingDetails ==
    /\ parse_call.op = "idle"
    /\ \E email \in ExtractionEmails, response \in {"raise", "not_mapping", "mapping"} :
         \E result \in (IF response = "mapping" THEN RawExtractions ELSE {<<>>}) :
            /\ parse_call' = [NoParseCall EXCEPT !.op = "extract_meeting_details",
                                                 !.email = email,
                                                 !.response = response, !.raw = result]
            /\ parse_out' = ExtractMeetingDetails(email, response, result)
    /\ UNCHANGED <<approval_vars, slot_vars, sender_vars, draft_vars, calendar_vars, llm_vars, inbox_vars>>

\* scheduler.py lines 145-191
DoCreateSchedulingProposal ==
    /\ parse_call.op = "idle"
    /\ \E extraction \in Extractions, email \in ExtractionEmails :
         /\ parse_call' = [NoParseCall EXCEPT !.op = "create_scheduling_proposal",
                                              !.email = email, !.raw = extraction]
         /\ parse_out' = Returns(CreateSchedulingProposal(extraction, email))
    /\ UNCHANGED <<approval_vars, slot_vars, sender_vars, draft_vars, calendar_vars, llm_vars, inbox_vars>>

\* the caller takes the outcome
ParseReturn ==
    /\ parse_call.op # "idle"
    /\ parse_call' = NoParseCall
    /\ parse_out' = NoParseOut
    /\ UNCHANGED <<approval_vars, slot_vars, sender_vars, draft_vars, calendar_vars, llm_vars, inbox_vars>>

NextParse ==
    \/ DoCheckAvailability
    \/ DoParseResult
    \/ DoParseClassification
    \/ DoFallbackClassification
    \/ DoClassify
    \/ DoExtractMeetingDetails
    \/ DoCreateSchedulingProposal
    \/ ParseReturn

SpecParse == InitParse /\ [][NextParse]_vars

----------------------------------------------------------------------------
(* db/database.py: the known_senders table, used from the browser sessions *)
(* of the Streamlit UI.  Every Database call opens its own SQLAlchemy      *)
(* session (get_db), which commits when the with-block is left and rolls   *)
(* back and re-raises on an exception.  SQLite lets one session write at a *)
(* time: an INSERT waits while another session's INSERT is not committed.  *)

\* the KnownSender row (db/models.py); the primary key id is left out
KnownSender(email, name, trust_level) ==
    [email |-> email, name |-> name, trust_level |-> trust_level]

\* email.lower() of lines 321, 327 and 332
SenderKey_AsGiven(email) == email

SenderKey(email) == Lower(email)

\* session.query(KnownSender).filter(KnownSender.email == email.lower()).first()
FindSender(table, email) ==
    LET found == {row \in table : row.email = SenderKey(email)}
    IN IF found = {} THEN None ELSE Some(CHOOSE row \in found : TRUE)

\* the addresses and names the UI passes
SenderAddresses == {addr_a, <<"A","@","x">>, addr_b}

SenderNames == {<<>>, <<"A","n","n">>}

\* another session's INSERT is flushed and not committed
WriteLocked(s) == \E t \in Sessions \ {s} : sender_calls[t].pc = "flushed"

\* database.py lines 318-321
DoIsKnownSender(s) ==
    /\ sender_calls[s].pc = "idle"
    /\ \E email \in SenderAddresses :
         sender_calls' = [sender_calls EXCEPT ![s] =
             [NoSenderCall EXCEPT !.op = "is_known_sender", !.pc = "done",
                                  !.email = email,
                                  !.ok = (FindSender(known_senders, email) # None)]]
    /\ UNCHANGED <<known_senders, approval_vars, slot_vars, parse_vars, draft_vars, calendar_vars, llm_vars, inbox_vars>>

\* database.py lines 323-329 under approval.py lines 235-239: the query of
\* add_known_sender, and the early return of the row found
AddKnownSenderQuery(s) ==
    /\ sender_calls[s].pc = "idle"
    /\ \E email \in SenderAddresses, name \in SenderNames :
         LET existing == FindSender(known_senders, email)
         IN sender_calls' = [sender_calls EXCEPT ![s] =
                [NoSenderCall EXCEPT !.op = "add_known_sender", !.email = email,
                                     !.name = name, !.existing = existing,
                                     !.returned = existing,
                                     !.pc = IF existing # None THEN "done"
                                            ELSE "queried",
                                     !.ok = (existing # None)]]
    /\ UNCHANGED <<known_senders, approval_vars, slot_vars, parse_vars, draft_vars, calendar_vars, llm_vars, inbox_vars>>

\* database.py lines 331-337: session.add and session.flush emit the INSERT;
\* the unique index on known_senders.email (models.py line 121) rejects a
\* second row with the same email, get_db rolls back and re-raises, and
\* ApprovalChecker.add_known_sender returns False (approval.py lines 240-242)
AddKnownSenderFlush(s) ==
    /\ sender_calls[s].pc = "queried"
    /\ ~WriteLocked(s)
    /\ LET sender == KnownSender(SenderKey(sender_calls[s].email),
                                 sender_calls[s].name, <<"n","o","r","m","a","l">>)
       IN sender_calls' = [sender_calls EXCEPT ![s] =
              IF \E row \in known_senders : row.email = sender.email
              THEN [@ EXCEPT !.pc = "done", !.raised = "IntegrityError",
                             !.ok = FALSE]
              ELSE [@ EXCEPT !.pc = "flushed", !.returned = Some(sender)]]
    /\ UNCHANGED <<known_senders, approval_vars, slot_vars, parse_vars, draft_vars, calendar_vars, llm_vars, inbox_vars>>

\* database.py lines 338-339 and get_db's session.commit()
AddKnownSenderCommit(s) ==
    /\ sender_calls[s].pc = "flushed"
    /\ known_senders' = known_senders \cup {sender_calls[s].returned[1]}
    /\ sender_calls' = [sender_calls EXCEPT ![s].pc = "done", ![s].ok = TRUE]
    /\ UNCHANGED <<approval_vars, slot_vars, parse_vars, draft_vars, calendar_vars, llm_vars, inbox_vars>>

\* settings_view.py lines 242-254: the Remove button of a listed row
RemoveKnownSender(s) ==
    /\ sender_calls[s].pc = "idle"
    /\ ~WriteLocked(s)
    /\ \E row \in known_senders :
         /\ known_senders' = known_senders \ {row}
         /\ sender_calls' = [sender_calls EXCEPT ![s] =
                [NoSenderCall EXCEPT !.op = "remove_known_sender", !.pc = "done",
                                     !.email = row.email, !.ok = TRUE]]
    /\ UNCHANGED <<approval_vars, slot_vars, parse_vars, draft_vars, calendar_vars, llm_vars, inbox_vars>>

\* the UI takes the outcome and shows its message
SenderReturn(s) ==
    /\ sender_calls[s].pc = "done"
    /\ sender_calls' = [sender_calls EXCEPT ![s] = NoSenderCall]
    /\ UNCHANGED <<known_senders, approval_vars, slot_vars, parse_vars, draft_vars, calendar_vars, llm_vars, inbox_vars>>

InitSenders ==
    /\ given = [confidence_threshold |-> None, sensitive_keywords |-> None]
    /\ checker = NewChecker(None, None)
    /\ call = IdleCall
    /\ lookups = <<>>
    /\ check = NoCheck
    /\ risk_trace = <<>>
    /\ auto = FALSE
    /\ raised = FALSE
    /\ slot_args = [start_date |-> 0, end_date |-> 0, duration_minutes |-> 0,
                    working_hours |-> <<0, 0>>, events |-> <<>>]
    /\ busy_times = <<>>
    /\ current = 0
    /\ free_slots = <<>>
    /\ pc = "idle"
    /\ last_step = "none"
    /\ parse_call = NoParseCall
    /\ parse_out = NoParseOut
    /\ known_senders = {}
    /\ sender_calls = [s \in Sessions |-> NoSenderCall]
    /\ drafts = [d \in 1..MaxDrafts |-> [status |-> "none", is_approved |-> FALSE]]
    /\ draft_cache = [s \in Sessions |-> None]
    /\ sent_count = [d \in 1..MaxDrafts |-> 0]
    /\ calendar_actions = [a \in 1..MaxActions |-> [status |-> "none", is_approved |-> FALSE]]
    /\ action_ui = [s \in Sessions |-> NoActionUi]
    /\ created_events = {}
    /\ llm_object = NoLlmObject
    /\ llm_used = NoLlmUse
    /\ session_state = <<>>
    /\ mailbox = 0
    /\ inbox_ui = NoInboxUi

NextSenders ==
    \/ \E s \in Sessions : DoIsKnownSender(s)
    \/ \E s \in Sessions : AddKnownSenderQuery(s)
    \/ \E s \in Sessions : AddKnownSenderFlush(s)
    \/ \E s \in Sessions : AddKnownSenderCommit(s)
    \/ \E s \in Sessions : RemoveKnownSender(s)
    \/ \E s \in Sessions : SenderReturn(s)

SpecSenders == InitSenders /\ [][NextSenders]_vars

----------------------------------------------------------------------------
(* ui/draft_view.py over the drafts table (db/database.py) and             *)
(* GmailService.send_email: each browser session keeps the list of pending *)
(* drafts it fetched in st.session_state["pending_drafts"] and acts on the *)
(* Draft objects of that list.                                             *)

\* the Draft row (db/models.py lines 60-77): status and is_approved; a draft
\* that was not created yet has status "none"
DraftRow(status, is_approved) == [status |-> status, is_approved |-> is_approved]

\* the ids of the drafts that can be created
DraftIds == 1..MaxDrafts

\* database.py lines 187-200: Database.get_pending_drafts
GetPendingDrafts(table) ==
    {d \in DraftIds : table[d].status = "pending" /\ ~table[d].is_approved}

\* database.py lines 166-180: Database.save_draft, called from the Inbox
SaveDraft ==
    /\ \E d \in DraftIds :
         /\ drafts[d].status = "none"
         /\ drafts' = [drafts EXCEPT ![d] = DraftRow("pending", FALSE)]
    /\ UNCHANGED <<draft_cache, sent_count, approval_vars, slot_vars, parse_vars,
                   sender_vars, calendar_vars, llm_vars, inbox_vars>>

\* draft_view.py lines 34-44: _fetch_pending_drafts, when the session has no
\* cached list
FetchPendingDrafts(s) ==
    /\ draft_cache[s] = None
    /\ draft_cache' = [draft_cache EXCEPT ![s] = Some(GetPendingDrafts(drafts))]
    /\ UNCHANGED <<drafts, sent_count, approval_vars, slot_vars, parse_vars,
                   sender_vars, calendar_vars, llm_vars, inbox_vars>>

\* draft_view.py lines 19-22: the Refresh button
RefreshDrafts(s) ==
    /\ draft_cache[s] # None
    /\ draft_cache' = [draft_cache EXCEPT ![s] = None]
    /\ UNCHANGED <<drafts, sent_count, approval_vars, slot_vars, parse_vars,
                   sender_vars, calendar_vars, llm_vars, inbox_vars>>

\* draft_view.py lines 119-149: _approve_and_send on a draft of the cached
\* list.  send_email returns a message id (sent) or None (not sent, also when
\* it raises); after a send the draft is approved and marked sent (database.py
\* lines 212-232) and the cached list is dropped.
ApproveAndSend(s) ==
    /\ draft_cache[s] # None
    /\ \E d \in draft_cache[s][1], message_id \in {None, Some(<<"i","d">>)} :
         IF message_id # None
         THEN /\ sent_count[d] < MaxSends
              /\ sent_count' = [sent_count EXCEPT ![d] = @ + 1]
              /\ drafts' = [drafts EXCEPT ![d] = DraftRow("sent", TRUE)]
              /\ draft_cache' = [draft_cache EXCEPT ![s] = None]
         ELSE UNCHANGED <<drafts, sent_count, draft_cache, calendar_vars, llm_vars, inbox_vars>>
    /\ UNCHANGED <<approval_vars, slot_vars, parse_vars, sender_vars, calendar_vars, llm_vars, inbox_vars>>

\* draft_view.py lines 152-164 and database.py lines 234-241: _reject_draft
RejectDraft(s) ==
    /\ draft_cache[s] # None
    /\ \E d \in draft_cache[s][1] :
         drafts' = [drafts EXCEPT ![d].status = "rejected"]
    /\ draft_cache' = [draft_cache EXCEPT ![s] = None]
    /\ UNCHANGED <<sent_count, approval_vars, slot_vars, parse_vars, sender_vars, calendar_vars, llm_vars, inbox_vars>>

InitDrafts ==
    /\ given = [confidence_threshold |-> None, sensitive_keywords |-> None]
    /\ checker = NewChecker(None, None)
    /\ call = IdleCall
    /\ lookups = <<>>
    /\ check = NoCheck
    /\ risk_trace = <<>>
    /\ auto = FALSE
    /\ raised = FALSE
    /\ slot_args = [start_date |-> 0, end_date |-> 0, duration_minutes |-> 0,
                    working_hours |-> <<0, 0>>, events |-> <<>>]
    /\ busy_times = <<>>
    /\ current = 0
    /\ free_slots = <<>>
    /\ pc = "idle"
    /\ last_step = "none"
    /\ parse_call = NoParseCall
    /\ parse_out = NoParseOut
    /\ known_senders = {}
    /\ sender_calls = [s \in Sessions |-> NoSenderCall]
    /\ drafts = [d \in 1..MaxDrafts |-> [status |-> "none", is_approved |-> FALSE]]
    /\ draft_cache = [s \in Sessions |-> None]
    /\ sent_count = [d \in 1..MaxDrafts |-> 0]
    /\ calendar_actions = [a \in 1..MaxActions |-> [status |-> "none", is_approved |-> FALSE]]
    /\ action_ui = [s \in Sessions |-> NoActionUi]
    /\ created_events = {}
    /\ llm_object = NoLlmObject
    /\ llm_used = NoLlmUse
    /\ session_state = <<>>
    /\ mailbox = 0
    /\ inbox_ui = NoInboxUi

NextDrafts ==
    \/ SaveDraft
    \/ \E s \in Sessions : FetchPendingDrafts(s)
    \/ \E s \in Sessions : RefreshDrafts(s)
    \/ \E s \in Sessions : ApproveAndSend(s)
    \/ \E s \in Sessions : RejectDraft(s)

SpecDrafts == InitDrafts /\ [][NextDrafts]_vars

----------------------------------------------------------------------------
(* ui/calendar_view.py, "Pending Meetings", over the calendar_actions      *)
(* table (db/database.py): each browser session keeps the list it fetched  *)
(* in st.session_state["pending_calendar_actions"].                        *)

\* the methods class Database defines (database.py lines 53-345)
DatabaseMethods ==
    {"save_email", "get_email", "get_email_by_id", "get_emails",
     "save_classification", "get_latest_classification", "get_pending_approvals",
     "approve_classification", "save_draft", "get_draft", "get_pending_drafts",
     "update_draft", "approve_draft", "mark_draft_sent", "reject_draft",
     "save_feedback", "save_calendar_action", "get_pending_calendar_actions",
     "approve_calendar_action", "is_known_sender", "add_known_sender",
     "get_known_senders"}

\* the ids of the calendar actions that can be saved
ActionIds == 1..MaxActions

\* database.py lines 292-303: Database.get_pending_calendar_actions
GetPendingCalendarActions(table) ==
    {a \in ActionIds : table[a].status = "pending" /\ ~table[a].is_approved}

\* database.py lines 265-290: Database.save_calendar_action
SaveCalendarAction ==
    /\ \E a \in ActionIds :
         /\ calendar_actions[a].status = "none"
         /\ calendar_actions' = [calendar_actions EXCEPT
                                    ![a] = [status |-> "pending", is_approved |-> FALSE]]
    /\ UNCHANGED <<action_ui, created_events, approval_vars, slot_vars, parse_vars,
                   sender_vars, draft_vars, llm_vars, inbox_vars>>

\* calendar_view.py lines 139-148: _fetch_pending_calendar_actions, when the
\* session has no cached list
FetchPendingCalendarActions(s) ==
    /\ action_ui[s].cache = None
    /\ action_ui' = [action_ui EXCEPT
                        ![s].cache = Some(GetPendingCalendarActions(calendar_actions))]
    /\ UNCHANGED <<calendar_actions, created_events, approval_vars, slot_vars,
                   parse_vars, sender_vars, draft_vars, llm_vars, inbox_vars>>

\* calendar_view.py lines 171-202 and database.py lines 305-316:
\* _approve_calendar_action on an action of the cached list; create_event
\* returns the event or None
ApproveCalendarAction(s) ==
    /\ action_ui[s].cache # None
    /\ \E a \in action_ui[s].cache[1], event \in {None, Some(<<"i","d">>)} :
         IF event # None
         THEN /\ created_events' = created_events \cup {a}
              /\ calendar_actions' = [calendar_actions EXCEPT
                                         ![a] = [status |-> "approved",
                                                 is_approved |-> TRUE]]
              /\ action_ui' = [action_ui EXCEPT
                                  ![s] = [cache |-> None, op |-> "approve",
                                          action |-> a, message |-> "Event created!"]]
         ELSE /\ action_ui' = [action_ui EXCEPT
                                  ![s] = [cache |-> @.cache, op |-> "approve",
                                          action |-> a,
                                          message |-> "Failed to create event"]]
              /\ UNCHANGED <<calendar_actions, created_events, llm_vars, inbox_vars>>
    /\ UNCHANGED <<approval_vars, slot_vars, parse_vars, sender_vars, draft_vars, llm_vars, inbox_vars>>

\* calendar_view.py lines 205-217: _reject_calendar_action on an action of the
\* cached list.  Database has no method reject_calendar_action, so line 209
\* raises AttributeError, which the handler catches: it shows "Failed to
\* reject" and returns before the cached list is dropped.
RejectCalendarAction(s) ==
    /\ action_ui[s].cache # None
    /\ "reject_calendar_action" \notin DatabaseMethods
    /\ \E a \in action_ui[s].cache[1] :
         action_ui' = [action_ui EXCEPT
                          ![s] = [cache |-> @.cache, op |-> "reject", action |-> a,
                                  message |-> "Failed to reject"]]
    /\ UNCHANGED <<calendar_actions, created_events, approval_vars, slot_vars,
                   parse_vars, sender_vars, draft_vars, llm_vars, inbox_vars>>

InitCalendarActions ==
    /\ given = [confidence_threshold |-> None, sensitive_keywords |-> None]
    /\ checker = NewChecker(None, None)
    /\ call = IdleCall
    /\ lookups = <<>>
    /\ check = NoCheck
    /\ risk_trace = <<>>
    /\ auto = FALSE
    /\ raised = FALSE
    /\ slot_args = [start_date |-> 0, end_date |-> 0, duration_minutes |-> 0,
                    working_hours |-> <<0, 0>>, events |-> <<>>]
    /\ busy_times = <<>>
    /\ current = 0
    /\ free_slots = <<>>
    /\ pc = "idle"
    /\ last_step = "none"
    /\ parse_call = NoParseCall
    /\ parse_out = NoParseOut
    /\ known_senders = {}
    /\ sender_calls = [s \in Sessions |-> NoSenderCall]
    /\ drafts = [d \in 1..MaxDrafts |-> [status |-> "none", is_approved |-> FALSE]]
    /\ draft_cache = [s \in Sessions |-> None]
    /\ sent_count = [d \in 1..MaxDrafts |-> 0]
    /\ calendar_actions = [a \in 1..MaxActions |-> [status |-> "none", is_approved |-> FALSE]]
    /\ action_ui = [s \in Sessions |-> NoActionUi]
    /\ created_events = {}
    /\ llm_object = NoLlmObject
    /\ llm_used = NoLlmUse
    /\ session_state = <<>>
    /\ mailbox = 0
    /\ inbox_ui = NoInboxUi

NextCalendarActions ==
    \/ SaveCalendarAction
    \/ \E s \in Sessions : FetchPendingCalendarActions(s)
    \/ \E s \in Sessions : ApproveCalendarAction(s)
    \/ \E s \in Sessions : RejectCalendarAction(s)

SpecCalendarActions == InitCalendarActions /\ [][NextCalendarActions]_vars

----------------------------------------------------------------------------
(* The lazily constructed LLM client and chain of EmailClassifier,         *)
(* ReplyDrafter, MeetingScheduler (fields _llm and _chain or               *)
(* _extraction_chain) and LLMService (field _client, held in llm here; it  *)
(* has no chain).  A client is represented by the model id it was          *)
(* constructed for, a chain by the model id of the client it was built on. *)

LlmClasses == {"EmailClassifier", "ReplyDrafter", "MeetingScheduler", "LLMService"}

\* config.py line 29
LLM_MODEL_ID == "meta-llama/Llama-3.1-8B-Instruct"

\* the model ids of test_set_model, and the configured one
ModelIds == {"original-model", "new-model", LLM_MODEL_ID}

\* __init__: model_id or config.LLM_MODEL_ID, no client and no chain
NewLlmObject(class, model_id) ==
    [class |-> class,
     model_id |-> IF model_id # None THEN model_id[1] ELSE LLM_MODEL_ID,
     llm |-> None, chain |-> None]

\* the property llm (client for LLMService): the object after the access
WithLlm(obj) ==
    IF obj.llm = None THEN [obj EXCEPT !.llm = Some(obj.model_id)] ELSE obj

\* the property chain (extraction_chain for MeetingScheduler): the object
\* after the access; a new chain is built on self.llm
WithChain(obj) ==
    IF obj.chain = None
    THEN [WithLlm(obj) EXCEPT !.chain = Some(WithLlm(obj).llm[1])]
    ELSE obj

\* mutant: set_model keeps the chain
SetModel_KeepChain(obj, model_id) ==
    [obj EXCEPT !.model_id = model_id, !.llm = None]

\* set_model
SetModel(obj, model_id) ==
    [obj EXCEPT !.model_id = model_id, !.llm = None, !.chain = None]

\* classify, draft_reply and extract_meeting_details invoke self.chain
UseChain ==
    /\ llm_object.class # "LLMService"
    /\ llm_object' = WithChain(llm_object)
    /\ llm_used' = [llm_used EXCEPT !.model = WithChain(llm_object).chain]
    /\ UNCHANGED <<approval_vars, slot_vars, parse_vars, sender_vars, draft_vars,
                   calendar_vars, inbox_vars>>

\* draft_with_template and improve_draft build a chain on self.llm; every
\* method of LLMService calls self.client
UseLlm ==
    /\ llm_object.class \in {"ReplyDrafter", "LLMService"}
    /\ llm_object' = WithLlm(llm_object)
    /\ llm_used' = [llm_used EXCEPT !.model = WithLlm(llm_object).llm]
    /\ UNCHANGED <<approval_vars, slot_vars, parse_vars, sender_vars, draft_vars,
                   calendar_vars, inbox_vars>>

\* set_model(model_id); llm_used keeps what was discarded
DoSetModel ==
    /\ \E model_id \in ModelIds :
         /\ llm_object' = SetModel(llm_object, model_id)
         /\ llm_used' = [model |-> None, set_to |-> Some(model_id),
                         discarded |-> IF llm_object.chain # None
                                       THEN llm_object.chain ELSE llm_object.llm]
    /\ UNCHANGED <<approval_vars, slot_vars, parse_vars, sender_vars, draft_vars,
                   calendar_vars, inbox_vars>>

InitModelCache ==
    /\ given = [confidence_threshold |-> None, sensitive_keywords |-> None]
    /\ checker = NewChecker(None, None)
    /\ call = IdleCall
    /\ lookups = <<>>
    /\ check = NoCheck
    /\ risk_trace = <<>>
    /\ auto = FALSE
    /\ raised = FALSE
    /\ slot_args = [start_date |-> 0, end_date |-> 0, duration_minutes |-> 0,
                    working_hours |-> <<0, 0>>, events |-> <<>>]
    /\ busy_times = <<>>
    /\ current = 0
    /\ free_slots = <<>>
    /\ pc = "idle"
    /\ last_step = "none"
    /\ parse_call = NoParseCall
    /\ parse_out = NoParseOut
    /\ known_senders = {}
    /\ sender_calls = [s \in Sessions |-> NoSenderCall]
    /\ drafts = [d \in 1..MaxDrafts |-> [status |-> "none", is_approved |-> FALSE]]
    /\ draft_cache = [s \in Sessions |-> None]
    /\ sent_count = [d \in 1..MaxDrafts |-> 0]
    /\ calendar_actions = [a \in 1..MaxActions |-> [status |-> "none", is_approved |-> FALSE]]
    /\ action_ui = [s \in Sessions |-> NoActionUi]
    /\ created_events = {}
    /\ \E class \in LlmClasses, model_id \in {None, Some("original-model")} :
         llm_object = NewLlmObject(class, model_id)
    /\ llm_used = NoLlmUse
    /\ session_state = <<>>
    /\ mailbox = 0
    /\ inbox_ui = NoInboxUi

NextModelCache ==
    \/ UseChain
    \/ UseLlm
    \/ DoSetModel

SpecModelCache == InitModelCache /\ [][NextModelCache]_vars

----------------------------------------------------------------------------
(* ui/inbox_view.py: the e-mail lists one browser session caches in        *)
(* st.session_state.  A key is the sequence of the pieces its f-string is  *)
(* made of; a list fetched from Gmail is represented by the state of the   *)
(* mailbox (the number of changes made to it) when it was fetched.         *)

\* inbox_view.py line 57: f"emails_{unread_only}_{max_results}"
CacheKey(unread_only, max_results) ==
    <<"emails", "_", unread_only, "_", max_results>>

\* st.session_state.pop(key, None)
Pop(state, key) == [k \in DOMAIN state \ {key} |-> state[k]]

\* the values of the "Show unread only" checkbox and of the "Show" select box
\* the session uses
InboxParams == {<<"True", "10">>, <<"True", "20">>, <<"False", "20">>}

\* inbox_view.py lines 45 and 55-69: render_inbox calls _fetch_emails, which
\* asks Gmail only when the key is not in the session state; fetch_emails
\* returns the list or raises
FetchEmails ==
    /\ \E params \in InboxParams, fetched \in BOOLEAN :
         LET cache_key == CacheKey(params[1], params[2])
         IN IF cache_key \notin DOMAIN session_state
            THEN /\ session_state' =
                        IF fetched
                        THEN [k \in DOMAIN session_state \cup {cache_key} |->
                                 IF k = cache_key THEN mailbox ELSE session_state[k]]
                        ELSE session_state
                 /\ inbox_ui' = [op |-> "fetch", key |-> cache_key,
                                 from_gmail |-> TRUE,
                                 stale |-> inbox_ui.stale \ {cache_key},
                                 after_invalidation |-> FALSE]
            ELSE /\ fetched
                 /\ session_state' = session_state
                 /\ inbox_ui' = [op |-> "fetch", key |-> cache_key,
                                 from_gmail |-> FALSE, stale |-> inbox_ui.stale,
                                 after_invalidation |-> cache_key \in inbox_ui.stale]
    /\ UNCHANGED <<mailbox, approval_vars, slot_vars, parse_vars, sender_vars,
                   draft_vars, calendar_vars, llm_vars>>

\* inbox_view.py lines 41-43: the Refresh button pops the key "emails"
Refresh ==
    /\ session_state' = Pop(session_state, <<"emails">>)
    /\ inbox_ui' = [op |-> "refresh", key |-> <<"emails">>, from_gmail |-> FALSE,
                    stale |-> DOMAIN session_state, after_invalidation |-> FALSE]
    /\ UNCHANGED <<mailbox, approval_vars, slot_vars, parse_vars, sender_vars,
                   draft_vars, calendar_vars, llm_vars>>

\* inbox_view.py lines 225-235: _mark_as_read; when Gmail marks the message
\* read the key "emails" is popped
MarkAsRead ==
    /\ mailbox < MaxMailboxChanges
    /\ \E marked \in BOOLEAN :
         IF marked
         THEN /\ mailbox' = mailbox + 1
              /\ session_state' = Pop(session_state, <<"emails">>)
              /\ inbox_ui' = [op |-> "mark_as_read", key |-> <<"emails">>,
                              from_gmail |-> FALSE, stale |-> DOMAIN session_state,
                              after_invalidation |-> FALSE]
         ELSE /\ inbox_ui' = [inbox_ui EXCEPT !.op = "mark_as_read_failed"]
              /\ UNCHANGED <<mailbox, session_state>>
    /\ UNCHANGED <<approval_vars, slot_vars, parse_vars, sender_vars, draft_vars,
                   calendar_vars, llm_vars>>

InitInbox ==
    /\ given = [confidence_threshold |-> None, sensitive_keywords |-> None]
    /\ checker = NewChecker(None, None)
    /\ call = IdleCall
    /\ lookups = <<>>
    /\ check = NoCheck
    /\ risk_trace = <<>>
    /\ auto = FALSE
    /\ raised = FALSE
    /\ slot_args = [start_date |-> 0, end_date |-> 0, duration_minutes |-> 0,
                    working_hours |-> <<0, 0>>, events |-> <<>>]
    /\ busy_times = <<>>
    /\ current = 0
    /\ free_slots = <<>>
    /\ pc = "idle"
    /\ last_step = "none"
    /\ parse_call = NoParseCall
    /\ parse_out = NoParseOut
    /\ known_senders = {}
    /\ sender_calls = [s \in Sessions |-> NoSenderCall]
    /\ drafts = [d \in 1..MaxDrafts |-> [status |-> "none", is_approved |-> FALSE]]
    /\ draft_cache = [s \in Sessions |-> None]
    /\ sent_count = [d \in 1..MaxDrafts |-> 0]
    /\ calendar_actions = [a \in 1..MaxActions |-> [status |-> "none", is_approved |-> FALSE]]
    /\ action_ui = [s \in Sessions |-> NoActionUi]
    /\ created_events = {}
    /\ llm_object = NoLlmObject
    /\ llm_used = NoLlmUse
    /\ session_state = <<>>
    /\ mailbox = 0
    /\ inbox_ui = NoInboxUi

NextInbox ==
    \/ FetchEmails
    \/ Refresh
    \/ MarkAsRead

SpecInbox == InitInbox /\ [][NextInbox]_vars

----------------------------------------------------------------------------
(* Properties of the approval checker, checked under SpecApproval *)

Codes(reasons) == {reasons[i].code : i \in DOMAIN reasons}

HasReason(code) == code \in Codes(check.reasons)

LevelNum(risk_level) ==
    IF risk_level = "low" THEN 0 ELSE IF risk_level = "medium" THEN 1 ELSE 2

\* the lookup found the sender not known: no lookup for an empty address,
\* a lookup that answered false, or one that failed
NotKnown(address, outcome) == address = <<>> \/ outcome \in {"false", "raise"}

\* C1: check_email is fail-closed on sender trust: when the sender address
\* is empty, or the lookup answers false or raises, check_email returns
\* without raising, requires approval, gives the reason unknown_sender and a
\* risk level of at least medium.
C1_FailClosedSender ==
    (call.op = "check_email" /\ NotKnown(call.email.sender_email, lookups[1]))
        => /\ ~raised
           /\ check.requires_approval
           /\ HasReason(UNKNOWN_SENDER)
           /\ LevelNum(check.risk_level) >= 1

C1_Witness ==
    /\ call.op = "check_email"
    /\ lookups = <<"raise">>
    /\ call.email.subject = <<>>
    /\ call.email.body = <<>>
    /\ check.reasons = <<Reason(UNKNOWN_SENDER)>>
    /\ check.risk_level = "medium"

\* C2: should_auto_approve returns false whenever the check_email it runs
\* requires approval, whatever the classification and the lookups' outcomes.
C2_NoAutoApproveWhenApprovalRequired ==
    (call.op = "should_auto_approve" /\ check.requires_approval) => auto = FALSE

C2_Witness ==
    /\ call.op = "should_auto_approve"
    /\ check.requires_approval
    /\ call.classification[1].category = "FYI_ONLY"
    /\ call.classification[1].confidence = 10
    /\ lookups = <<"true">>
    /\ auto = FALSE

\* the letters a and b are equal up to case
SameLetter(a, b) ==
    \/ a = b
    \/ \E i \in DOMAIN UpperChars :
         {a, b} = {UpperChars[i], LowerChars[i]}

\* kw occurs in text as a substring, case-insensitively
OccursIn(kw, text) ==
    \E p \in 1..(Len(text) - Len(kw) + 1) :
        \A k \in 1..Len(kw) : SameLetter(text[p + k - 1], kw[k])

\* the best available body text of an e-mail
BestBody(email) == IF email.body # <<>> THEN email.body ELSE email.snippet

\* how many of the reasons are the reason r
CountReason(r) == Cardinality({i \in DOMAIN check.reasons : check.reasons[i] = r})

\* C3: when a configured sensitive keyword occurs, case-insensitively, in
\* the subject or in the best available body text, check_email gives the
\* risk level high, the reason sensitive_content and exactly one reason
\* keyword:<kw> for that keyword, whatever the sender and classification.
C3_SensitiveContentIsHigh ==
    call.op = "check_email" =>
        \A i \in DOMAIN checker.sensitive_keywords :
            LET kw == checker.sensitive_keywords[i]
            IN (OccursIn(kw, call.email.subject) \/ OccursIn(kw, BestBody(call.email)))
                 => /\ check.risk_level = "high"
                    /\ HasReason(SENSITIVE_CONTENT)
                    /\ CountReason(ParamReason("keyword", kw)) = 1

C3_Witness ==
    /\ call.op = "check_email"
    /\ lookups = <<"true">>
    /\ call.classification = None
    /\ call.email.subject = <<>>
    /\ call.email.body = f_Pay \o f_ment
    /\ checker.sensitive_keywords = SENSITIVE_KEYWORDS
    /\ check.risk_level = "high"
    /\ check.reasons = <<Reason(SENSITIVE_CONTENT),
                         ParamReason("keyword", <<"p","a","y","m","e","n","t">>)>>

\* C4: every verdict of check_email, check_draft and check_calendar_action
\* requires approval exactly when its list of reasons is not empty.
C4_ApprovalIffReasons ==
    call.op \in {"check_email", "check_draft", "check_calendar_action"}
        => (check.requires_approval <=> check.reasons # <<>>)

C4_Witness ==
    /\ call.op = "check_draft"
    /\ check.requires_approval
    /\ Len(check.reasons) >= 3
    /\ check.risk_level = "medium"

\* the level of the rule a reason code stands for (a parameterized reason
\* belongs to the rule that gave it and adds nothing)
RuleLevel(code) ==
    IF code \in {SENSITIVE_CONTENT, "contains_commitments", "sensitive_meeting_topic"}
    THEN 2
    ELSE IF code \in {UNKNOWN_SENDER, LOW_CONFIDENCE, "draft_contains_sensitive_keywords",
                      "replying_to_unknown_sender", "external_attendees",
                      "unknown_attendees"}
    THEN 1
    ELSE 0

MaxOf(S) == CHOOSE x \in S : \A y \in S : y <= x

\* C5: the risk level of a verdict is the highest level among the rules
\* that triggered (low when none did), and within one evaluation no rule
\* lowers the level an earlier rule set.
C5_RiskIsMaxOfTriggered ==
    call.op \in {"check_email", "check_draft", "check_calendar_action"}
        => /\ LevelNum(check.risk_level)
                = MaxOf({RuleLevel(c) : c \in Codes(check.reasons)} \cup {0})
           /\ \A i \in 1..(Len(risk_trace) - 1) :
                LevelNum(risk_trace[i]) <= LevelNum(risk_trace[i + 1])
           /\ risk_trace[Len(risk_trace)] = check.risk_level

C5_Witness ==
    /\ call.op = "check_draft"
    /\ HasReason("contains_commitments")
    /\ HasReason("replying_to_unknown_sender")
    /\ risk_trace = <<"low", "low", "high", "high">>
    /\ check.risk_level = "high"

\* C6: for a category other than FYI_ONLY, should_auto_approve returns true
\* only if the rule check required no approval, the confidence is at least
\* 0.9 and the lookup made after the rule check answered true; when that
\* lookup answers false or raises the result is false, and nothing is raised.
C6_AutoApproveNeedsKnownSender ==
    (call.op = "should_auto_approve"
     /\ call.classification[1].category # "FYI_ONLY")
        => /\ ~raised
           /\ auto => /\ ~check.requires_approval
                      /\ call.classification[1].confidence >= AUTO_APPROVE_CONFIDENCE
                      /\ Len(lookups) = 2
                      /\ lookups[2] = "true"
           /\ (Len(lookups) = 2 /\ lookups[2] \in {"false", "raise"}) => auto = FALSE

C6_Witness ==
    /\ call.op = "should_auto_approve"
    /\ call.classification[1].category = "NEEDS_REPLY"
    /\ call.classification[1].confidence = 10
    /\ lookups = <<"true", "raise">>
    /\ ~check.requires_approval
    /\ auto = FALSE
    /\ ~raised

\* the threshold the constructor was given, 0.7 when it was given none
GivenThreshold ==
    IF given.confidence_threshold = None THEN CONFIDENCE_THRESHOLD
    ELSE given.confidence_threshold[1]

\* C7: for every threshold given to the constructor (the default only when
\* none is given), check_email gives the reason low_confidence exactly when
\* a classification is supplied whose confidence is strictly below it.
C7_LowConfidenceIffBelowGiven ==
    call.op = "check_email"
        => (HasReason(LOW_CONFIDENCE)
              <=> (call.classification # None
                   /\ call.classification[1].confidence < GivenThreshold))

\* C8: when the commitment detector matches the draft body, check_draft
\* requires approval with the risk level high and the reason
\* contains_commitments, whatever the sender and the sensitive keywords.
C8_CommitmentsAreHigh ==
    (call.op = "check_draft" /\ ContainsCommitments(call.draft_body))
        => /\ check.requires_approval
           /\ check.risk_level = "high"
           /\ HasReason("contains_commitments")

C8_Witness ==
    /\ call.op = "check_draft"
    /\ call.draft_body = d_test
    /\ lookups = <<"true">>
    /\ check.requires_approval
    /\ check.risk_level = "high"
    /\ check.reasons = <<Reason("contains_commitments")>>

\* the attendees found not known, in input order
RECURSIVE NotKnownAttendees(_, _)
NotKnownAttendees(attendees, outcomes) ==
    IF attendees = <<>> THEN <<>>
    ELSE (IF NotKnown(Head(attendees), Head(outcomes)) THEN <<Head(attendees)>> ELSE <<>>)
         \o NotKnownAttendees(Tail(attendees), Tail(outcomes))

\* the addresses of the attendee:<email> reasons, in order
AttendeesNamed ==
    LET rs == SelectSeq(check.reasons, LAMBDA r : r.code = "attendee")
    IN [i \in DOMAIN rs |-> rs[i].arg]

\* C9: check_calendar_action gives the reason unknown_attendees exactly when
\* some attendee is not a known sender, and its attendee:<email> reasons are
\* the first min(3, k) of the k unknown attendees, in input order.
C9_FirstThreeUnknownAttendees ==
    call.op = "check_calendar_action" =>
        LET unknown == NotKnownAttendees(call.attendees, lookups)
            k == Len(unknown)
        IN /\ HasReason("unknown_attendees") <=> k > 0
           /\ AttendeesNamed = SubSeq(unknown, 1, IF k < 3 THEN k ELSE 3)

C9_Witness ==
    /\ call.op = "check_calendar_action"
    /\ call.attendees = <<addr_b, addr_a, addr_c, <<>>>>
    /\ AttendeesNamed = <<addr_b, addr_c, <<>>>>

C9_WitnessFourth ==
    /\ call.op = "check_calendar_action"
    /\ call.attendees = <<addr_b, addr_c, <<>>, addr_b>>
    /\ AttendeesNamed = <<addr_b, addr_c, <<>>>>

----------------------------------------------------------------------------
(* Properties of find_free_slots, checked under SpecSlots *)

\* C10: no slot find_free_slots emits overlaps a busy interval, that is, an
\* event fetched for the search that is not all-day.
C10_NoSlotOverlapsBusy ==
    \A i \in DOMAIN free_slots : \A j \in DOMAIN slot_args.events :
        LET slot == free_slots[i]
            event == slot_args.events[j]
        IN ~event.is_all_day
             => ~(slot.start < event.end /\ slot.end > event.start)

C10_Witness ==
    /\ pc = "done"
    /\ slot_args.events = <<Event(At(0, 10, 15), At(0, 11, 45), FALSE),
                            Event(At(0, 10, 0), At(0, 10, 30), FALSE)>>
    /\ slot_args.start_date = At(0, 9, 0)
    /\ slot_args.duration_minutes = 60
    /\ Len(free_slots) >= 2
    /\ free_slots[1].start = At(0, 9, 0)
    /\ free_slots[2].start = At(0, 11, 45)

\* C11: every slot find_free_slots emits starts at or after the start of
\* the working hours and ends at or before the end of the working hours of
\* the day on which it starts, whatever the window start, the busy
\* intervals and the duration.
C11_SlotsInsideWorkingHours ==
    \A i \in DOMAIN free_slots :
        LET slot == free_slots[i]
            wh == slot_args.working_hours
        IN /\ slot.start >= ReplaceHour(slot.start, wh[1])
           /\ slot.end <= ReplaceHour(slot.start, wh[2])

\* a search that starts after the working hours, with a busy interval that
\* ends after them, and emits on the next day
C11_Witness ==
    /\ pc = "done"
    /\ slot_args.start_date = At(0, 17, 30)
    /\ slot_args.working_hours = <<9, 17>>
    /\ slot_args.events = <<Event(At(0, 16, 0), At(0, 17, 30), FALSE)>>
    /\ free_slots # <<>>
    /\ free_slots[1].start = At(1, 9, 0)

\* the window of the search lies inside the working hours of one day
WindowInsideWorkingHours ==
    LET wh == slot_args.working_hours
    IN /\ slot_args.start_date <= slot_args.end_date
       /\ slot_args.start_date >= ReplaceHour(slot_args.start_date, wh[1])
       /\ slot_args.end_date <= ReplaceHour(slot_args.start_date, wh[2])

windowMinutes == slot_args.end_date - slot_args.start_date

\* floor((windowMinutes - d) / 30) + 1
SlotCountFormula == ((windowMinutes - slot_args.duration_minutes) \div 30) + 1

\* a finished search with no busy interval over a window inside the
\* working hours of one day
EmptyCalendarSearch ==
    /\ pc = "done"
    /\ BusyOf(slot_args.events) = <<>>
    /\ WindowInsideWorkingHours

\* C12 as stated: with no busy interval and a window inside one day's
\* working hours, find_free_slots emits exactly
\* floor((windowMinutes - d) / 30) + 1 slots.
C12_SlotCountAsStated ==
    EmptyCalendarSearch => Len(free_slots) = SlotCountFormula

\* C12: with no busy interval, a window inside one day's working hours and
\* a positive duration d, find_free_slots emits exactly
\* floor((windowMinutes - d) / 30) + 1 slots when that number is positive
\* and no slot otherwise.
C12_SlotCount ==
    (EmptyCalendarSearch /\ slot_args.duration_minutes >= 1)
        => Len(free_slots) = (IF SlotCountFormula > 0 THEN SlotCountFormula ELSE 0)

\* 10:10 to 12:00 with working hours 10 to 12 and 30 minutes: three slots,
\* the candidate at 11:40 being clipped
C12_Witness ==
    /\ EmptyCalendarSearch
    /\ slot_args.start_date = At(0, 10, 10)
    /\ slot_args.end_date = At(0, 12, 0)
    /\ slot_args.working_hours = <<10, 12>>
    /\ slot_args.duration_minutes = 30
    /\ Len(free_slots) = 3

\* the candidate [cursor, slotEnd) the loop builds from the cursor
CandidateStart ==
    LET wh == slot_args.working_hours
    IN IF Hour(current) < wh[1] THEN ReplaceHour(current, wh[1]) ELSE current

CandidateEnd ==
    LET day_end == ReplaceHour(CandidateStart, slot_args.working_hours[2])
        whole == CandidateStart + slot_args.duration_minutes
    IN IF whole <= day_end THEN whole ELSE day_end

\* the loop reaches the overlap test with the candidate
CandidateTested ==
    /\ pc = "scan"
    /\ current < slot_args.end_date
    /\ Hour(current) < slot_args.working_hours[1]
         \/ Hour(current) < slot_args.working_hours[2]
    /\ CandidateEnd <= slot_args.end_date

\* the busy events that overlap the candidate
OverlappingEvents ==
    {slot_args.events[j] : j \in
        {k \in DOMAIN slot_args.events :
            /\ ~slot_args.events[k].is_all_day
            /\ CandidateStart < slot_args.events[k].end
            /\ CandidateEnd > slot_args.events[k].start}}

ExampleSearch ==
    [start_date |-> At(0, 9, 0), end_date |-> At(0, 17, 0), duration_minutes |-> 60,
     working_hours |-> <<9, 17>>,
     events |-> <<Event(At(0, 10, 0), At(0, 10, 30), FALSE)>>]

ExampleStarts ==
    <<At(0, 9, 0)>> \o [k \in 1..12 |-> At(0, 10, 30) + (k - 1) * 30]

\* C13: when the candidate overlaps a busy interval no slot is emitted for
\* it and the cursor moves exactly to the end of the first overlapping
\* interval in start-time order; the search of 09:00 to 17:00 for 60 minutes
\* with busy (10:00, 10:30) emits the starts 09:00, 10:30, 11:00, ..., 16:00.
C13_ResumeAtEndOfFirstOverlap ==
    /\ [][(CandidateTested /\ OverlappingEvents # {})
            => /\ free_slots' = free_slots
               /\ \E b \in OverlappingEvents :
                    /\ \A o \in OverlappingEvents : b.start <= o.start
                    /\ current' = b.end]_vars
    /\ []((pc = "done" /\ slot_args = ExampleSearch)
            => [i \in DOMAIN free_slots |-> free_slots[i].start] = ExampleStarts)

\* two intervals overlap the candidate 09:30 to 10:30 and the cursor went
\* to the end of the one that starts first, given second
C13_Witness ==
    /\ last_step = "busy"
    /\ slot_args.events = <<Event(At(0, 10, 15), At(0, 11, 45), FALSE),
                            Event(At(0, 10, 0), At(0, 10, 30), FALSE)>>
    /\ slot_args.duration_minutes = 60
    /\ Len(free_slots) = 1
    /\ free_slots[1].start = At(0, 9, 0)
    /\ current = At(0, 10, 30)

\* the example search finished with its thirteen slots
C13_WitnessExample ==
    /\ pc = "done"
    /\ slot_args = ExampleSearch
    /\ Len(free_slots) = 13

\* C14: every emitted slot has end - start equal to the requested duration
\* and carries that duration; a candidate clipped to the end of the working
\* hours, shorter than the requested duration, is never emitted.
C14_SlotsHaveRequestedDuration ==
    \A i \in DOMAIN free_slots :
        LET slot == free_slots[i]
        IN /\ slot.end - slot.start = slot_args.duration_minutes
           /\ slot.duration_minutes = slot_args.duration_minutes
           /\ slot.start + slot_args.duration_minutes
                <= ReplaceHour(slot.start, slot_args.working_hours[2])

\* the candidate at 16:30 was clipped to 17:00 and skipped
C14_Witness ==
    /\ last_step = "short"
    /\ slot_args.duration_minutes = 60
    /\ slot_args.working_hours = <<9, 17>>
    /\ current = At(0, 17, 0)
    /\ free_slots # <<>>
    /\ free_slots[Len(free_slots)].start = At(0, 16, 0)

----------------------------------------------------------------------------
(* Properties of check_availability, of the classification and extraction  *)
(* parsers and of the fallbacks, checked under SpecParse                   *)

\* C15: check_availability(start, end) returns true if and only if no
\* event returned by the calendar that is not all-day has start < event.end
\* and end > event.start; an all-day event never makes it false and an
\* event that only touches the range at an endpoint is not a conflict.
C15_AvailableIffNoOverlap ==
    parse_call.op = "check_availability" =>
        LET events == parse_call.events
            timed == {j \in DOMAIN events : ~events[j].is_all_day}
        IN /\ parse_out.raised = "none"
           /\ parse_out.value
                <=> ~\E j \in timed : /\ parse_call.start < events[j].end
                                      /\ parse_call.end > events[j].start
           /\ (\A j \in timed : \/ events[j].end <= parse_call.start
                                \/ events[j].start >= parse_call.end)
                => parse_out.value

\* 10:30 to 11:00 with an event that ends at 10:30 and an all-day event
C15_Witness ==
    /\ parse_call.op = "check_availability"
    /\ parse_call.start = At(0, 10, 30)
    /\ parse_call.end = At(0, 11, 0)
    /\ parse_call.events = <<Event(At(0, 10, 0), At(0, 10, 30), FALSE),
                             Event(At(0, 0, 0), At(1, 0, 0), TRUE)>>
    /\ parse_out.value = TRUE

\* a classification parser returned a result
ParsedAClassification ==
    /\ parse_call.op \in {"_parse_result", "_parse_classification"}
    /\ parse_out.raised = "none"

\* C16: every ClassificationResult parsed from raw model output, by
\* EmailClassifier._parse_result or by LLMService._parse_classification,
\* has a category of the enumeration (the raw category upper-cased, FYI_ONLY
\* when unrecognized or missing) and a confidence clamped into [0, 1]:
\* 'bogus' with 2.5 gives FYI_ONLY with 1.0, and -0.5 gives 0.0.
C16_ParsedClassificationIsValid ==
    ParsedAClassification =>
        /\ parse_out.value.category \in valid_categories
        /\ parse_out.value.confidence >= 0
        /\ parse_out.value.confidence <= 10
        /\ (parse_call.response = "mapping" /\ parse_call.raw.category = JStr(Txt.bogus)
              /\ parse_call.raw.confidence = JFloat(25))
             => /\ parse_out.value.category = EmailCategory.FYI_ONLY
                /\ parse_out.value.confidence = 10
        /\ (parse_call.response = "mapping" /\ parse_call.raw.confidence = JFloat(0 - 5))
             => parse_out.value.confidence = 0

\* C17: EmailClassifier._parse_result never raises: for every mapping,
\* also with a category that is not a string, a confidence that is not
\* numeric or missing keys, it returns a ClassificationResult.
C17_ParseResultNeverRaises ==
    parse_call.op = "_parse_result" => parse_out.raised = "none"

\* the text the fallback classification looks at: subject and body (the
\* snippet when the body is empty), whatever the case of the letters
HeuristicText == Lower(parse_call.email.subject \o <<" ">> \o BestBody(parse_call.email))

Mentions(words) == \E word \in words : Contains(HeuristicText, word)

IsFallback(category, confidence) ==
    /\ parse_out.value.category = category
    /\ parse_out.value.confidence = confidence

\* C18: the fallback classification applies its rules in a fixed order and
\* the first match wins: a meeting keyword gives MEETING_REQUEST (0.6)
\* whatever else the text holds; otherwise a question or request marker
\* gives NEEDS_REPLY (0.6); otherwise a task keyword gives TASK_ACTION
\* (0.6); otherwise FYI_ONLY (0.5).
C18_FallbackPriority ==
    parse_call.op = "_fallback_classification" =>
        /\ parse_out.raised = "none"
        /\ Mentions(meeting_words) => IsFallback(EmailCategory.MEETING_REQUEST, 6)
        /\ (~Mentions(meeting_words) /\ Mentions(question_words))
             => IsFallback(EmailCategory.NEEDS_REPLY, 6)
        /\ (~Mentions(meeting_words) /\ ~Mentions(question_words)
              /\ Mentions(task_words))
             => IsFallback(EmailCategory.TASK_ACTION, 6)
        /\ (~Mentions(meeting_words) /\ ~Mentions(question_words)
              /\ ~Mentions(task_words))
             => IsFallback(EmailCategory.FYI_ONLY, 5)

\* a meeting keyword in the subject, a task keyword and a question mark in
\* the body
C18_Witness ==
    /\ parse_call.op = "_fallback_classification"
    /\ parse_call.email.subject = Txt.Call
    /\ parse_call.email.body = Txt.due \o Txt.question_mark
    /\ IsFallback(EmailCategory.MEETING_REQUEST, 6)

\* a question mark and a task keyword, no meeting keyword
C18_WitnessQuestion ==
    /\ parse_call.op = "_fallback_classification"
    /\ parse_call.email.subject = Txt.due
    /\ parse_call.email.body = Txt.question_mark \o Txt.hi
    /\ IsFallback(EmailCategory.NEEDS_REPLY, 6)

\* the chain's output is a mapping _parse_result cannot parse
CannotBeParsed(result) ==
    \/ result.category.t \notin {"str", "absent"}
    \/ result.confidence.t \in {"NoneType", "list"}
    \/ result.confidence.t = "str" /\ FloatOfText(result.confidence.s).raised # "none"

\* C19: classify never raises and always returns a ClassificationResult
\* with a category of the enumeration and a confidence in [0, 1]; when the
\* chain raises or its output cannot be parsed the result is exactly the
\* fallback classification of the same e-mail, also for an e-mail with an
\* empty subject and an empty body.
C19_ClassifyFallsBack ==
    parse_call.op = "classify" =>
        /\ parse_out.raised = "none"
        /\ parse_out.value.category \in valid_categories
        /\ parse_out.value.confidence >= 0
        /\ parse_out.value.confidence <= 10
        /\ (\/ parse_call.response \in {"raise", "not_mapping"}
            \/ parse_call.response = "mapping" /\ CannotBeParsed(parse_call.raw))
             => parse_out.value = FallbackClassification(parse_call.email)

\* the chain raised on an e-mail with an empty subject and an empty body
C19_Witness ==
    /\ parse_call.op = "classify"
    /\ parse_call.response = "raise"
    /\ parse_call.email.subject = <<>>
    /\ parse_call.email.body = <<>>
    /\ parse_out.raised = "none"
    /\ parse_out.value = Classification(EmailCategory.FYI_ONLY, 5, JStr(Reasoning.fallback))

\* the chain returned a category that is not a string, for an e-mail with
\* a question mark
C19_WitnessUnparsed ==
    /\ parse_call.op = "classify"
    /\ parse_call.response = "mapping"
    /\ parse_call.raw.category = JInt(5)
    /\ parse_call.email.body = Txt.question_mark
    /\ parse_out.raised = "none"
    /\ parse_out.value.category = EmailCategory.NEEDS_REPLY

\* C20: every MeetingExtraction extract_meeting_details returns, parsed or
\* fallback, has duration_minutes >= 1: a missing duration is 60 and a zero
\* or negative duration of the model is made positive.
C20_DurationIsPositive ==
    parse_call.op = "extract_meeting_details" =>
        /\ parse_out.raised = "none"
        /\ parse_out.value.duration_minutes >= 1
        /\ (parse_call.response = "mapping"
              /\ parse_call.raw.duration_minutes.t = "absent")
             => parse_out.value.duration_minutes = 60

\* the comma-separated items of a text, without surrounding blanks
CommaItems(text) == StripNonEmpty(Split(text, ","))

\* an extraction parsed from the mapping the chain returned
ParsedAnExtraction ==
    /\ parse_call.op = "extract_meeting_details"
    /\ parse_call.response = "mapping"
    /\ ParseExtraction(parse_call.raw, parse_call.email).raised = "none"

\* C21: _parse_extraction turns a string-valued attendees field and a
\* string-valued proposed_times field into the list of the string's
\* comma-separated items, and passes a value that is already a list through
\* unchanged.
C21_StringFieldsSplitOnCommas ==
    ParsedAnExtraction =>
        \A field \in {"attendees", "proposed_times"} :
            /\ parse_call.raw[field].t = "str"
                  => parse_out.value[field] = JList(CommaItems(parse_call.raw[field].s))
            /\ parse_call.raw[field].t = "list"
                  => parse_out.value[field] = parse_call.raw[field]

\* C25: every iteration of the loop of find_free_slots either leaves the loop
\* or moves the cursor strictly forward, and every scan that is started ends.
C25_ScanTerminates ==
    /\ [][pc = "scan" => (pc' = "done" \/ current' > current)]_vars
    /\ (pc = "scan" ~> pc = "done")

\* a scan has ended after jumping over a busy interval and emitting slots
C25_Witness ==
    /\ pc = "done"
    /\ busy_times # <<>>
    /\ Len(free_slots) >= 2
    /\ \E i \in DOMAIN busy_times :
          /\ free_slots[1].start < busy_times[i][1]
          /\ free_slots[Len(free_slots)].start >= busy_times[i][2]
    /\ current > slot_args.start_date

\* word occurs in text at position p as a whole word
WholeWordAt(text, word, p) ==
    /\ Boundary(text, p)
    /\ MatchAt(text, word, p)
    /\ Boundary(text, p + Len(word))

\* a whole word confirm, confirmed or confirming, and anywhere after it a
\* whole word payment, delivery, date or deadline
ConfirmThenNoun(text) ==
    \E p \in 1..Len(text), suffix \in p_confirm_suffixes :
        /\ WholeWordAt(text, p_confirm \o suffix, p)
        /\ \E r \in (p + Len(p_confirm \o suffix))..Len(text), noun \in p_confirm_nouns :
              WholeWordAt(text, noun, r)

\* C30: the commitment detector is true for every draft in which a whole word
\* confirm, confirmed or confirming is followed anywhere later, also after a
\* line break, by a whole word payment, delivery, date or deadline.
C30_ConfirmThenNounDetected ==
    (call.op = "check_draft" /\ ConfirmThenNoun(Lower(call.draft_body)))
        => HasReason("contains_commitments")

----------------------------------------------------------------------------
(* Properties of the known_senders table, checked under SpecSenders *)

SameUpToCase(a, b) == Lower(a) = Lower(b)

\* the rows stored for an address, whatever its letter case
StoredFor(email) == {row \in known_senders : SameUpToCase(row.email, email)}

\* session s is starting add_known_sender for an address stored already
AddsAStoredAddress(s) ==
    /\ sender_calls[s].pc = "idle"
    /\ sender_calls'[s].op = "add_known_sender"
    /\ StoredFor(sender_calls'[s].email) # {}

\* C22: add_known_sender for an address that is stored already, in any letter
\* case, inserts nothing, leaves the stored row unchanged and returns it, so
\* that the table after the second call is the table after the first; and
\* is_known_sender is true for every case variant of a stored address.
C22_AddKnownSenderIdempotent ==
    /\ [][\A s \in Sessions :
            AddsAStoredAddress(s) =>
                /\ known_senders' = known_senders
                /\ sender_calls'[s].pc = "done"
                /\ sender_calls'[s].ok
                /\ sender_calls'[s].raised = "none"
                /\ sender_calls'[s].returned \in {Some(row) :
                       row \in StoredFor(sender_calls'[s].email)}]_vars
    /\ [][\A s \in Sessions :
            (sender_calls[s].pc = "idle" /\ sender_calls'[s].op = "is_known_sender")
                => (sender_calls'[s].ok
                      <=> StoredFor(sender_calls'[s].email) # {})]_vars
    /\ [](\A email \in SenderAddresses : Cardinality(StoredFor(email)) <= 1)

\* a second add_known_sender, in another letter case and with another name,
\* has returned the row the first one stored
C22_Witness ==
    \E s \in Sessions :
        /\ sender_calls[s].op = "add_known_sender"
        /\ sender_calls[s].pc = "done"
        /\ sender_calls[s].existing # None
        /\ sender_calls[s].returned = sender_calls[s].existing
        /\ sender_calls[s].existing[1] \in known_senders
        /\ sender_calls[s].email # sender_calls[s].existing[1].email
        /\ sender_calls[s].name # sender_calls[s].existing[1].name

\* C27: when two sessions have each completed add_known_sender for addresses
\* equal up to letter case, both calls returned true and the table holds
\* exactly one row for the address.
C27_ConcurrentAddsSucceed ==
    \A s, t \in Sessions :
        (/\ s # t
         /\ sender_calls[s].op = "add_known_sender" /\ sender_calls[s].pc = "done"
         /\ sender_calls[t].op = "add_known_sender" /\ sender_calls[t].pc = "done"
         /\ SameUpToCase(sender_calls[s].email, sender_calls[t].email))
            => /\ sender_calls[s].ok /\ sender_calls[t].ok
               /\ Cardinality(StoredFor(sender_calls[s].email)) = 1

\* C23: create_scheduling_proposal leaves every field of the extraction it is
\* given, its attendees list included, as it was before the call.
C23_ExtractionNotMutated ==
    parse_call.op = "create_scheduling_proposal" =>
        parse_out.value.extraction = parse_call.raw

----------------------------------------------------------------------------
(* Properties of the draft review view, checked under SpecDrafts *)

\* C24: GmailService.send_email succeeds at most once for each draft id,
\* however the sessions that hold the draft in their cached pending list
\* interleave their "Approve & Send" actions.
C24_DraftSentAtMostOnce == \A d \in DraftIds : sent_count[d] <= 1

----------------------------------------------------------------------------
(* Properties of the pending meetings view, checked under                  *)
(* SpecCalendarActions                                                     *)

\* C26: a calendar action the user has rejected is no longer returned by
\* get_pending_calendar_actions, so that no session can approve it and turn
\* it into a calendar event afterwards.
C26_RejectedActionNotPending ==
    \A s \in Sessions :
        action_ui[s].op = "reject"
            => action_ui[s].action \notin GetPendingCalendarActions(calendar_actions)

----------------------------------------------------------------------------
(* Properties of the lazily constructed clients, checked under             *)
(* SpecModelCache                                                          *)

\* C28: a cached client or chain was constructed for the current model_id;
\* set_model(m) sets model_id to m and discards the client and the chain; the
\* first use after it constructs a client bound to m, and no call made after
\* set_model uses a client bound to another model.
C28_CacheBoundToCurrentModel ==
    /\ [](/\ llm_object.llm \in {None, Some(llm_object.model_id)}
          /\ llm_object.chain \in {None, Some(llm_object.model_id)}
          /\ llm_used.model \in {None, Some(llm_object.model_id)}
          /\ llm_used.set_to \in {None, Some(llm_object.model_id)})
    /\ [][llm_used'.set_to # llm_used.set_to \/ llm_used'.discarded # llm_used.discarded
            => /\ llm_object'.llm = None
               /\ llm_object'.chain = None
               /\ llm_used'.model = None]_vars
    /\ [][(llm_object.llm = None /\ llm_used'.model # None)
            => /\ llm_object'.llm = Some(llm_object.model_id)
               /\ llm_used'.model = Some(llm_object.model_id)]_vars

\* after set_model discarded a chain built for another model, a call has
\* used a chain built for the new model
C28_Witness ==
    /\ llm_used.discarded # None
    /\ llm_used.discarded # Some(llm_object.model_id)
    /\ llm_used.set_to = Some(llm_object.model_id)
    /\ llm_used.model = Some(llm_object.model_id)
    /\ llm_object.chain = Some(llm_object.model_id)
    /\ llm_object.class = "EmailClassifier"

----------------------------------------------------------------------------
(* Properties of the inbox view, checked under SpecInbox *)

\* C29: the first _fetch_emails call made for a key after Refresh was pressed
\* or a message was marked read, when the key was cached at that moment, asks
\* Gmail again instead of returning the list cached before.
C29_InboxCacheInvalidated ==
    (inbox_ui.op = "fetch" /\ inbox_ui.after_invalidation) => inbox_ui.from_gmail

=============================================================================
